---- MODULE Spec2Model ----
(***************************************************************************)
(* Portfolio ledger of the simulated fund-trading trainer                  *)
(* (src/store/simulationStore.ts): the zustand store holding one account,  *)
(* and its four operations buyFund, sellFund, updatePrices, resetAccount.  *)
(*                                                                         *)
(* Numbers.  The store computes on JavaScript numbers, the doubles of the  *)
(* 64-bit binary format.  The model has them in two forms.                 *)
(*   - <<n, d>>, an exact rational in lowest terms with d > 0, extended    *)
(*     with the values a division by zero produces: NaN = <<0, 0>> and the *)
(*     infinities <<1, 0>> and <<-1, 0>>.  Arithmetic on two such values   *)
(*     is exact.  Specification Spec computes on these only.               *)
(*   - <<s, m, e>>, the double s * m * 2^e with a mantissa m of exactly 53 *)
(*     bits.  Arithmetic with at least one such operand is the arithmetic  *)
(*     of the format: the exact result rounded to nearest, ties to even;   *)
(*     an exact operand is first replaced by the double nearest to it, as  *)
(*     a literal of the source is.  Specification SpecDouble passes share  *)
(*     counts in this form, so all it computes is rounded as the program   *)
(*     rounds it.  The exponent range and the sign of zero are not         *)
(*     represented: no value in play is near the limits of the format.     *)
(***************************************************************************)
EXTENDS Integers, Sequences, FiniteSets, TLC

----------------------------------------------------------------------------
(* Arithmetic on JavaScript numbers, as exact rationals plus NaN, +-Infinity *)

Abs(x) == IF x < 0 THEN -x ELSE x

Sgn(x) == IF x < 0 THEN -1 ELSE IF x > 0 THEN 1 ELSE 0

RECURSIVE GCD(_, _)
GCD(a, b) == IF b = 0 THEN a ELSE GCD(b, a % b)

NaN == <<0, 0>>

Infinity(s) == <<s, 0>>

IsNaN(a) == a = NaN

\* n/d in lowest terms with a positive denominator (d # 0)
Frac(n, d) ==
    LET g == GCD(Abs(n), Abs(d))
        s == Sgn(d)
    IN  <<(s * n) \div g, (s * d) \div g>>

Num(i) == <<i, 1>>

----------------------------------------------------------------------------
(* Reference data *)

\* mockFunds: code, name, type, price (names are given in English)
mockFunds ==
    << [code |-> "F001", name |-> "GrowthSelectMix", type |-> "mix",   price |-> Frac(2456, 1000)],
       [code |-> "F002", name |-> "SteadyBondA",     type |-> "bond",  price |-> Frac(1234, 1000)],
       [code |-> "F003", name |-> "TechPioneerStock", type |-> "stock", price |-> Frac(3789, 1000)],
       [code |-> "F004", name |-> "CSI300Index",     type |-> "index", price |-> Frac(1876, 1000)],
       [code |-> "F005", name |-> "MoneyPlus",       type |-> "money", price |-> Frac(1023, 1000)],
       [code |-> "F006", name |-> "ConsumerMix",     type |-> "mix",   price |-> Frac(2123, 1000)],
       [code |-> "F007", name |-> "ValueSelectStock", type |-> "stock", price |-> Frac(1987, 1000)],
       [code |-> "F008", name |-> "NewEnergyIndex",  type |-> "index", price |-> Frac(1543, 1000)] >>

\* the literal 100000 of the aggregate computations and of initialState
InitialCapital == 100000

initialState ==
    [ totalAssets       |-> Num(InitialCapital),
      cashBalance       |-> Num(InitialCapital),
      profitLoss        |-> Num(0),
      profitLossPercent |-> Num(0),
      positions         |-> << >>,
      transactions      |-> << >> ]

\* messages of sellFund and the alert of buyFund (the source texts are Chinese)
MsgPositionNotFound == "PositionNotFound"
MsgInvalidShareCount == "InvalidShareCount"
MsgInsufficientShares == "InsufficientShares"
MsgFullSell == "FullSellDone"
MsgPartialSell == "SellDone"
MsgInsufficientFunds == "InsufficientFunds"

----------------------------------------------------------------------------
(* Natural numbers of any size: little-endian sequences of limbs in base 2^15, *)
(* without leading zero limbs; << >> is 0 *)
Base == 32768

RECURSIVE Pow2(_)
Pow2(k) == IF k = 0 THEN 1 ELSE 2 * Pow2(k - 1)

RECURSIVE BigTrim(_)
BigTrim(a) ==
    IF a = << >> THEN << >>
    ELSE IF a[Len(a)] = 0 THEN BigTrim(SubSeq(a, 1, Len(a) - 1))
    ELSE a

RECURSIVE BigOf(_)
BigOf(n) == IF n = 0 THEN << >> ELSE <<n % Base>> \o BigOf(n \div Base)

Limb(a, i) == IF i <= Len(a) THEN a[i] ELSE 0

RECURSIVE BigAddFrom(_, _, _, _)
BigAddFrom(a, b, i, carry) ==
    IF i > Len(a) /\ i > Len(b)
    THEN (IF carry = 0 THEN << >> ELSE <<carry>>)
    ELSE LET t == Limb(a, i) + Limb(b, i) + carry
         IN  <<t % Base>> \o BigAddFrom(a, b, i + 1, t \div Base)

BigAdd(a, b) == BigAddFrom(a, b, 1, 0)

\* a - b for a >= b
RECURSIVE BigSubFrom(_, _, _, _)
BigSubFrom(a, b, i, borrow) ==
    IF i > Len(a) THEN << >>
    ELSE LET t == Limb(a, i) - Limb(b, i) - borrow
         IN  <<t % Base>> \o BigSubFrom(a, b, i + 1, IF t < 0 THEN 1 ELSE 0)

BigSub(a, b) == BigTrim(BigSubFrom(a, b, 1, 0))

\* -1, 0, 1 as a < b, a = b, a > b
RECURSIVE BigCmpFrom(_, _, _)
BigCmpFrom(a, b, i) ==
    IF i = 0 THEN 0
    ELSE IF a[i] # b[i] THEN (IF a[i] < b[i] THEN -1 ELSE 1)
    ELSE BigCmpFrom(a, b, i - 1)

BigCmp(a, b) ==
    IF Len(a) # Len(b) THEN (IF Len(a) < Len(b) THEN -1 ELSE 1)
    ELSE BigCmpFrom(a, b, Len(a))

\* a * x for one limb x
RECURSIVE BigMulLimbFrom(_, _, _, _)
BigMulLimbFrom(a, x, i, carry) ==
    IF i > Len(a) THEN (IF carry = 0 THEN << >> ELSE <<carry>>)
    ELSE LET t == a[i] * x + carry
         IN  <<t % Base>> \o BigMulLimbFrom(a, x, i + 1, t \div Base)

BigMulLimb(a, x) == IF x = 0 THEN << >> ELSE BigMulLimbFrom(a, x, 1, 0)

RECURSIVE BigMul(_, _)
BigMul(a, b) ==
    IF b = << >> \/ a = << >> THEN << >>
    ELSE BigAdd(BigMulLimb(a, b[1]),
                LET r == BigMul(a, Tail(b))
                IN  IF r = << >> THEN << >> ELSE <<0>> \o r)

\* number of bits of a
RECURSIVE BitsOfLimb(_)
BitsOfLimb(x) == IF x = 0 THEN 0 ELSE 1 + BitsOfLimb(x \div 2)

BigBits(a) == IF a = << >> THEN 0 ELSE 15 * (Len(a) - 1) + BitsOfLimb(a[Len(a)])

\* a * 2^k
BigShl(a, k) ==
    IF a = << >> THEN << >>
    ELSE [i \in 1..(k \div 15) |-> 0] \o BigMulLimb(a, Pow2(k % 15))

\* floor(a / 2^k)
BigShr(a, k) ==
    LET q == k \div 15
        r == k % 15
        b == SubSeq(a, q + 1, Len(a))
    IN  IF q >= Len(a) THEN << >>
        ELSE BigTrim([i \in 1..Len(b) |->
                        (b[i] \div Pow2(r)) + (Limb(b, i + 1) % Pow2(r)) * Pow2(15 - r)])

BigOdd(a) == a # << >> /\ a[1] % 2 = 1

(* Doubles: <<s, m, e>> is s * m * 2^e with s = 1 or -1 and m of exactly 53  *)
(* bits; zero is <<1, << >>, 0>>.  NaN and the infinities are <<0,0>>, <<s,0>> *)
DZero == <<1, << >>, 0>>

IsDouble(x) == Len(x) = 3

\* some bit of n below bit j is set
BigLowBits(n, j) ==
    \/ \E i \in 1..(j \div 15) : Limb(n, i) # 0
    \/ Limb(n, (j \div 15) + 1) % Pow2(j % 15) # 0

\* s * m * 2^e for m of 53 or, after a carry out of the mantissa, 54 bits
DRenorm(s, m, e) ==
    IF BigBits(m) = 54 THEN <<s, BigShr(m, 1), e + 1>> ELSE <<s, m, e>>

\* t holds the 53 bits kept and, as its lowest bit, the first bit cut off;
\* rest tells whether anything is set below that bit
DRoundCut(s, t, e, rest) ==
    IF BigOdd(t) /\ (rest \/ (t[1] \div 2) % 2 = 1)
    THEN DRenorm(s, BigAdd(BigShr(t, 1), <<1>>), e)
    ELSE <<s, BigShr(t, 1), e>>

\* DRound for n of len bits
DRoundBits(s, n, e, sticky, len) ==
    IF len = 0 THEN DZero
    ELSE IF len <= 53 THEN <<s, BigShl(n, 53 - len), e - (53 - len)>>
    ELSE DRoundCut(s, BigShr(n, len - 54), e + (len - 53),
                   sticky \/ BigLowBits(n, len - 54))

\* the double nearest to s * (n + f) * 2^e, ties to even, where 0 <= f < 1 and
\* f # 0 exactly when sticky (sticky only with n of 55 bits or more)
DRound(s, n, e, sticky) == DRoundBits(s, n, e, sticky, BigBits(n))

\* the double of an integer below 2^31 in magnitude, n = BigOf(Abs(i))
DOfBig(s, n, len) ==
    IF len = 0 THEN DZero ELSE <<s, BigShl(n, 53 - len), len - 53>>

DOfInt(i) ==
    DOfBig(IF i < 0 THEN -1 ELSE 1, BigOf(Abs(i)), BitsOfLimb(Abs(i)))

\* -a (the sign of zero is not represented)
DNeg(a) ==
    IF ~IsDouble(a) THEN <<-a[1], a[2]>>
    ELSE IF a[2] = << >> THEN DZero
    ELSE <<-a[1], a[2], a[3]>>

DIsZero(a) == IsDouble(a) /\ a[2] = << >>

\* sa * x * 2^e + sb * y * 2^e, where c compares x with y
DAddAligned(sa, x, sb, y, e, c) ==
    DRound(IF sa = sb \/ c > 0 THEN sa ELSE sb,
           IF sa = sb THEN BigAdd(x, y)
           ELSE IF c > 0 THEN BigSub(x, y)
           ELSE BigSub(y, x),
           e, FALSE)

\* a + b for finite nonzero doubles, e the lesser exponent
DAddAt(a, b, e) ==
    DAddAligned(a[1], BigShl(a[2], a[3] - e), b[1], BigShl(b[2], b[3] - e), e,
                IF a[3] + BigBits(a[2]) # b[3] + BigBits(b[2])
                THEN (IF a[3] + BigBits(a[2]) > b[3] + BigBits(b[2]) THEN 1 ELSE -1)
                ELSE BigCmp(a[2], b[2]))

\* a + b for doubles, NaN and infinities
DAdd(a, b) ==
    IF a = NaN \/ b = NaN THEN NaN
    ELSE IF ~IsDouble(a) /\ ~IsDouble(b) THEN (IF a = b THEN a ELSE NaN)
    ELSE IF ~IsDouble(a) THEN a
    ELSE IF ~IsDouble(b) THEN b
    ELSE IF DIsZero(a) THEN b
    ELSE IF DIsZero(b) THEN a
    ELSE DAddAt(a, b, IF a[3] < b[3] THEN a[3] ELSE b[3])

DMul(a, b) ==
    IF a = NaN \/ b = NaN THEN NaN
    ELSE IF ~IsDouble(a) \/ ~IsDouble(b)
         THEN (IF DIsZero(a) \/ DIsZero(b) THEN NaN
               ELSE Infinity(a[1] * b[1]))
    ELSE IF DIsZero(a) \/ DIsZero(b) THEN DZero
    ELSE DRound(a[1] * b[1], BigMul(a[2], b[2]), a[3] + b[3], FALSE)

\* four limbs with the carries and borrows passed upwards; the top limb
\* keeps what is left
Carry4(a) ==
    LET b2 == a[2] + (a[1] \div Base)
        b3 == a[3] + ((a[2] + (a[1] \div Base)) \div Base)
    IN  <<a[1] % Base, b2 % Base, b3 % Base, a[4] + (b3 \div Base)>>

\* a >= b for numbers of four limbs
Ge4(a, b) ==
    IF a[4] # b[4] THEN a[4] > b[4]
    ELSE IF a[3] # b[3] THEN a[3] > b[3]
    ELSE IF a[2] # b[2] THEN a[2] > b[2]
    ELSE a[1] >= b[1]

\* <<q, r>> after n more steps of the binary long division of r by d, on
\* numbers of four limbs (r < 2 * d, d a mantissa)
RECURSIVE DivSteps(_, _, _, _)
DivSteps(q, r, d, n) ==
    IF n = 0 \/ q[4] < 0 THEN <<q, r>>
    ELSE IF Ge4(r, d)
         THEN DivSteps(Carry4(<<2 * q[1] + 1, 2 * q[2], 2 * q[3], 2 * q[4]>>),
                       Carry4(<<2 * (r[1] - d[1]), 2 * (r[2] - d[2]),
                                2 * (r[3] - d[3]), 2 * (r[4] - d[4])>>),
                       d, n - 1)
         ELSE DivSteps(Carry4(<<2 * q[1], 2 * q[2], 2 * q[3], 2 * q[4]>>),
                       Carry4(<<2 * r[1], 2 * r[2], 2 * r[3], 2 * r[4]>>),
                       d, n - 1)

\* s * (q + f) * 2^e rounded, for the quotient q and the remainder r of a
\* long division of 56 steps
DOfQuotient(s, qr, e) ==
    DRound(s, BigTrim(qr[1]), e, qr[2] # <<0, 0, 0, 0>>)

DDiv(a, b) ==
    IF a = NaN \/ b = NaN THEN NaN
    ELSE IF ~IsDouble(b) THEN (IF IsDouble(a) THEN DZero ELSE NaN)
    ELSE IF DIsZero(b)
         THEN (IF DIsZero(a) THEN NaN ELSE Infinity(a[1]))
    ELSE IF ~IsDouble(a) THEN Infinity(a[1] * b[1])
    ELSE IF DIsZero(a) THEN DZero
    ELSE DOfQuotient(a[1] * b[1], DivSteps(<<0, 0, 0, 0>>, a[2], b[2], 56),
                     a[3] - b[3] - 55)

\* the double nearest to n / d
DOfRatio(n, d) == DDiv(DOfInt(n), DOfInt(d))

\* the doubles of the decimal literals of mockFunds, computed once
PriceDoubles ==
    { <<mockFunds[i].price,
        DOfRatio(mockFunds[i].price[1], mockFunds[i].price[2])>> :
      i \in 1..Len(mockFunds) }

\* the double of the exact value a, looked up in known when it is there
DoubleFrom(a, known) ==
    IF known = {} THEN DOfRatio(a[1], a[2])
    ELSE (CHOOSE pd \in known : TRUE)[2]

\* a literal or an exact value as the double the 64-bit format stores for it
Double(a) ==
    IF Len(a) = 3 \/ a[2] = 0 THEN a
    ELSE DoubleFrom(a, { pd \in PriceDoubles : pd[1] = a })

\* both operands of an operation as doubles
Doubles(a, b) == [ i \in 1..2 |-> Double(IF i = 1 THEN a ELSE b) ]

----------------------------------------------------------------------------
(* Arithmetic of the store: exact on exact operands, and the rounded       *)
(* arithmetic of the 64-bit format as soon as one operand is a double      *)

IsFinite(a) == Len(a) = 3 \/ a[2] # 0

\* -1, 0, 1 as a is negative, zero, positive (a not NaN)
SignOf(a) ==
    IF Len(a) = 3 THEN (IF a[2] = << >> THEN 0 ELSE a[1]) ELSE Sgn(a[1])

Neg(a) == DNeg(a)

\* a + b, a * b, a / b on doubles given as a pair
DAddOf(ab) == DAdd(ab[1], ab[2])

DMulOf(ab) == DMul(ab[1], ab[2])

DDivOf(ab) == DDiv(ab[1], ab[2])

\* a + b
Add(a, b) ==
    IF IsDouble(a) \/ IsDouble(b) THEN DAddOf(Doubles(a, b))
    ELSE IF IsNaN(a) \/ IsNaN(b) THEN NaN
    ELSE IF ~IsFinite(a) /\ ~IsFinite(b) THEN (IF a = b THEN a ELSE NaN)
    ELSE IF ~IsFinite(a) THEN a
    ELSE IF ~IsFinite(b) THEN b
    ELSE LET l == (a[2] \div GCD(a[2], b[2])) * b[2]
         IN  Frac(a[1] * (l \div a[2]) + b[1] * (l \div b[2]), l)

\* a - b
Sub(a, b) == Add(a, Neg(b))

\* a * b for finite exact a and b; the factors are cancelled crosswise
\* before multiplying
MulExact(a, b) ==
    LET g1 == GCD(Abs(a[1]), b[2])
        g2 == GCD(Abs(b[1]), a[2])
    IN  <<(a[1] \div g1) * (b[1] \div g2), (a[2] \div g2) * (b[2] \div g1)>>

\* a * b
Mul(a, b) ==
    IF IsDouble(a) \/ IsDouble(b) THEN DMulOf(Doubles(a, b))
    ELSE IF IsNaN(a) \/ IsNaN(b) THEN NaN
    ELSE IF ~IsFinite(a) \/ ~IsFinite(b)
         THEN (IF a[1] = 0 \/ b[1] = 0 THEN NaN
               ELSE Infinity(Sgn(a[1]) * Sgn(b[1])))
    ELSE MulExact(a, b)

\* a / b: 0/0 is NaN, x/0 is an infinity
Div(a, b) ==
    IF IsDouble(a) \/ IsDouble(b) THEN DDivOf(Doubles(a, b))
    ELSE IF IsNaN(a) \/ IsNaN(b) THEN NaN
    ELSE IF ~IsFinite(b) THEN (IF IsFinite(a) THEN Num(0) ELSE NaN)
    ELSE IF b[1] = 0
         THEN (IF a[1] = 0 THEN NaN ELSE Infinity(Sgn(a[1])))
    ELSE IF ~IsFinite(a) THEN Infinity(Sgn(a[1]) * Sgn(b[1]))
    ELSE MulExact(a, <<Sgn(b[1]) * b[2], Abs(b[1])>>)

\* a > b, a <= b, a === b: every comparison with NaN is false
Gt(a, b) == ~IsNaN(a) /\ ~IsNaN(b) /\ SignOf(Sub(a, b)) > 0

Le(a, b) == ~IsNaN(a) /\ ~IsNaN(b) /\ ~Gt(a, b)

\* the two doubles of a pair are the same
DSame(ab) == ab[1] = ab[2]

StrictEq(a, b) ==
    /\ ~IsNaN(a) /\ ~IsNaN(b)
    /\ IF IsDouble(a) \/ IsDouble(b) THEN DSame(Doubles(a, b)) ELSE a = b

\* the integer a number of at most two limbs stands for
BigToInt(a) == Limb(a, 1) + Base * Limb(a, 2)

\* x.toFixed(2) for a finite x, as the count n of hundredths its digits
\* spell ("0.13" is 13): n / 100 is as close to x as possible, and of two
\* such n the one larger in magnitude
ToFixed2(x) ==
    IF Len(x) = 3
    THEN IF x[2] = << >> THEN 0
         ELSE LET n == BigMulLimb(x[2], 100)
              IN  x[1] * BigToInt(
                    IF x[3] >= 0 THEN BigShl(n, x[3])
                    ELSE BigShr(BigAdd(BigShl(n, 1), BigShl(<<1>>, -x[3])),
                                1 - x[3]))
    ELSE Sgn(x[1]) * ((200 * Abs(x[1]) + x[2]) \div (2 * x[2]))

\* parseFloat of the digits ToFixed2 gives
OfHundredths(n) == Frac(n, 100)

----------------------------------------------------------------------------
(* Bounds and inputs *)

\* cap on the length of account.transactions
MaxTx == 2

\* cap on the clock reading Date.now(); the clock starts at 0
MaxClock == 0

\* fund codes the callers pass: two listed funds, and one unlisted code
TradedCode == "F001"

OtherCode == "F002"

UnlistedCode == "F999"

\* share counts the callers pass: negative, zero, small, and one that costs
\* most of the initial capital (a second such buy cannot be paid)
ShareInputs ==
    {Num(-1), Num(0), Num(1), Num(2), Num(40000)}

\* the arguments of a buyFund or sellFund call: every share count on one
\* fund, one share of a second fund, one share of the unlisted code
CallInputs ==
    ({TradedCode} \X ShareInputs)
        \cup {<<OtherCode, Num(1)>>, <<UnlistedCode, Num(1)>>}

\* prices a simulated tick may land on
PriceGrid == {Frac(5, 4), Frac(12, 5)}

----------------------------------------------------------------------------
(* Array helpers *)

\* index of the first element with the given fundCode / code, 0 when none
FindIndex(seq, code) ==
    IF \E i \in 1..Len(seq) : seq[i].fundCode = code
    THEN CHOOSE i \in 1..Len(seq) :
            /\ seq[i].fundCode = code
            /\ \A j \in 1..(i - 1) : seq[j].fundCode # code
    ELSE 0

FundIndex(code) ==
    IF \E i \in 1..Len(mockFunds) : mockFunds[i].code = code
    THEN CHOOSE i \in 1..Len(mockFunds) :
            /\ mockFunds[i].code = code
            /\ \A j \in 1..(i - 1) : mockFunds[j].code # code
    ELSE 0

\* positions.reduce((sum, p) => sum + p.marketValue, 0)
RECURSIVE SumMarketValue(_)
SumMarketValue(positions) ==
    IF positions = << >> THEN Num(0)
    ELSE Add(SumMarketValue(SubSeq(positions, 1, Len(positions) - 1)),
             positions[Len(positions)].marketValue)

\* positions.filter((p) => p.fundCode !== fundCode)
RECURSIVE FilterOut(_, _)
FilterOut(positions, code) ==
    IF positions = << >> THEN << >>
    ELSE IF Head(positions).fundCode = code
         THEN FilterOut(Tail(positions), code)
         ELSE <<Head(positions)>> \o FilterOut(Tail(positions), code)

\* ((x - 100000) / 100000) * 100
PercentOfCapital(x) ==
    Mul(Div(x, Num(InitialCapital)), Num(100))

\* mutant: totalAssets is summed over the positions before the call
WithAggregates_StalePositions(account_, newCashBalance, newPositions, newTransactions) ==
    LET newTotalAssets == Add(SumMarketValue(account_.positions), newCashBalance)
    IN  [ account_ EXCEPT
            !.cashBalance = newCashBalance,
            !.totalAssets = newTotalAssets,
            !.profitLoss = Sub(newTotalAssets, Num(InitialCapital)),
            !.profitLossPercent =
                PercentOfCapital(Sub(newTotalAssets, Num(InitialCapital))),
            !.positions = newPositions,
            !.transactions = newTransactions ]

\* the account with cash, positions and transactions replaced and the three
\* aggregates recomputed from them
WithAggregates(account_, newCashBalance, newPositions, newTransactions) ==
    LET newTotalAssets == Add(SumMarketValue(newPositions), newCashBalance)
    IN  [ account_ EXCEPT
            !.cashBalance = newCashBalance,
            !.totalAssets = newTotalAssets,
            !.profitLoss = Sub(newTotalAssets, Num(InitialCapital)),
            !.profitLossPercent =
                PercentOfCapital(Sub(newTotalAssets, Num(InitialCapital))),
            !.positions = newPositions,
            !.transactions = newTransactions ]

----------------------------------------------------------------------------
(* State *)

VARIABLES
    account,    \* useSimulationStore.account
    now,        \* the clock reading Date.now() returned to the last call
    last,       \* the last call: operation, arguments, the account it found,
                \* what it returned and whether it raised the alert
    panel,      \* the state of the TradePanel component
    fundStore,  \* useFundStore: popularFunds, customFunds, allFunds, isLoading
    pending,    \* the calls of the fund store that await their provider
    search      \* the FundSearch box: its state, its debounce timer and
                \* the searches that await the search endpoint

vars == <<account, now, last, panel, fundStore, pending, search>>

\* what a call returns: nothing, or { success, message }; stated is the
\* amount interpolated into the message, <<n>> for n hundredths, << >> for a
\* message without one
NoResult == [kind |-> "void", success |-> FALSE, message |-> "", stated |-> << >>]

SellResult(success, message, stated) ==
    [kind |-> "object", success |-> success, message |-> message,
     stated |-> stated]

Call(op, fundCode, shares, pre, result, alert) ==
    [op |-> op, fundCode |-> fundCode, shares |-> shares, pre |-> pre,
     result |-> result, alert |-> alert]

\* useState(null), useState(""), useState(false), useState(null): no fund
\* selected ("" is null), an empty input, the sell dialog closed, no
\* position handed to it (<< >> is null)
initialPanel ==
    [ selectedFundCode     |-> "",
      buyShares            |-> << >>,
      sellDialogOpen       |-> FALSE,
      selectedSellPosition |-> << >> ]

\* a Fund of fundStore.ts; company "" is a fund without the optional field
Fund(code, name, type, company, price, dayGrowth) ==
    [code |-> code, name |-> name, type |-> type, company |-> company,
     price |-> price, dayGrowth |-> dayGrowth]

\* mockFunds of fundStore.ts (names are given in English)
mockFundsOfFundStore ==
    << Fund("000001", "HuaxiaGrowthMix",        "mix",   "", Frac(1234, 1000), Frac(5, 10)),
       Fund("110022", "EFundConsumerStock",     "stock", "", Frac(2456, 1000), Frac(12, 10)),
       Fund("161725", "CMBLiquorIndex",         "index", "", Frac(1567, 1000), Frac(-3, 10)),
       Fund("270002", "GFSteadyGrowthMix",      "mix",   "", Frac(1876, 1000), Frac(8, 10)),
       Fund("519732", "BOCOMDoubleInterestMix", "mix",   "", Frac(1543, 1000), Frac(2, 10)),
       Fund("001618", "TianhongElectronicsETF", "index", "", Frac(1234, 1000), Frac(6, 10)),
       Fund("005827", "EFundBlueChipMix",       "mix",   "", Frac(1987, 1000), Frac(15, 10)),
       Fund("161025", "CMBBiomedicineIndex",    "index", "", Frac(1321, 1000), Frac(-5, 10)) >>

\* the state create() gives the fund store
initialFundStore ==
    [ popularFunds |-> mockFundsOfFundStore,
      customFunds  |-> << >>,
      allFunds     |-> mockFundsOfFundStore,
      isLoading    |-> FALSE ]

\* the FundSearch box when it is mounted: the useState initial values, and
\* the timer the effect sets on the first render; latest is the list the
\* most recent firing of the timer asked the box to show
initialSearch ==
    [query |-> << >>, results |-> << >>, loading |-> FALSE,
     showResults |-> FALSE, timer |-> TRUE, issued |-> 0,
     inFlight |-> << >>, latest |-> << >>]

Init ==
    /\ account = initialState
    /\ now = 0
    /\ last = Call("init", "", Num(0), initialState, NoResult, "")
    /\ panel = initialPanel
    /\ fundStore = initialFundStore
    /\ pending = << >>
    /\ search = initialSearch

----------------------------------------------------------------------------
(* buyFund *)

\* totalAmount = shares * fund.price
TotalAmount(fund, shares) == Mul(shares, fund.price)

\* mutant: the cost is compared with totalAssets
BuyRejected_TotalAssets(account_, fund, shares) ==
    Gt(TotalAmount(fund, shares), account_.totalAssets)

\* totalAmount > account.cashBalance
BuyRejected(account_, fund, shares) ==
    Gt(TotalAmount(fund, shares), account_.cashBalance)

\* mutant: the cost is taken off the initial capital
BuyCashBalance_FromCapital(account_, totalAmount) ==
    Sub(Num(InitialCapital), totalAmount)

\* newCashBalance of buyFund
BuyCashBalance(account_, totalAmount) ==
    Sub(account_.cashBalance, totalAmount)

\* mutant: the cost of the shares already held is dropped
BuyExisting_ForgetOldCost(p, existingPosition, fund, shares) ==
    LET newTotalCost == Mul(fund.price, shares)
        totalShares  == Add(existingPosition.shares, shares)
        newAvgCost   == Div(newTotalCost, totalShares)
    IN  [ p EXCEPT
            !.shares = totalShares,
            !.totalCost = newTotalCost,
            !.avgCost = newAvgCost,
            !.currentPrice = fund.price,
            !.marketValue = Mul(totalShares, fund.price),
            !.profitLoss = Sub(Mul(totalShares, fund.price), newTotalCost),
            !.profitLossPercent =
                Mul(Div(Sub(fund.price, newAvgCost), newAvgCost), Num(100)) ]

\* an entry p of the bought code after a further buy: the weighted-average
\* cost, computed from existingPosition, the first entry of that code
BuyExisting(p, existingPosition, fund, shares) ==
    LET newTotalCost == Add(existingPosition.totalCost, Mul(fund.price, shares))
        totalShares  == Add(existingPosition.shares, shares)
        newAvgCost   == Div(newTotalCost, totalShares)
    IN  [ p EXCEPT
            !.shares = totalShares,
            !.totalCost = newTotalCost,
            !.avgCost = newAvgCost,
            !.currentPrice = fund.price,
            !.marketValue = Mul(totalShares, fund.price),
            !.profitLoss = Sub(Mul(totalShares, fund.price), newTotalCost),
            !.profitLossPercent =
                Mul(Div(Sub(fund.price, newAvgCost), newAvgCost), Num(100)) ]

\* the position a first buy creates
BuyNew(fund, shares, t) ==
    [ id                |-> t,
      fundCode          |-> fund.code,
      fundName          |-> fund.name,
      fundType          |-> fund.type,
      shares            |-> shares,
      totalCost         |-> Mul(fund.price, shares),
      avgCost           |-> fund.price,
      currentPrice      |-> fund.price,
      marketValue       |-> Mul(shares, fund.price),
      profitLoss        |-> Num(0),
      profitLossPercent |-> Num(0) ]

\* mutant: every buy appends a position
BuyPositions_AlwaysAppend(positions, fund, shares, t) ==
    Append(positions, BuyNew(fund, shares, t))

\* newPositions of buyFund
BuyPositions(positions, fund, shares, t) ==
    IF FindIndex(positions, fund.code) # 0
    THEN [ i \in 1..Len(positions) |->
             IF positions[i].fundCode = fund.code
             THEN BuyExisting(positions[i],
                              positions[FindIndex(positions, fund.code)],
                              fund, shares)
             ELSE positions[i] ]
    ELSE Append(positions, BuyNew(fund, shares, t))

BuyTransaction(fund, shares, t) ==
    [ id          |-> t,
      fundCode    |-> fund.code,
      fundName    |-> fund.name,
      fundType    |-> fund.type,
      type        |-> "buy",
      sellType    |-> "none",
      shares      |-> shares,
      price       |-> fund.price,
      totalAmount |-> TotalAmount(fund, shares),
      createdAt   |-> t ]

\* mutant: the transaction is appended behind the earlier ones
buyFund_AppendLast(account_, fundCode, shares, t) ==
    IF FundIndex(fundCode) = 0
    THEN [account |-> account_, alert |-> ""]
    ELSE LET fund == mockFunds[FundIndex(fundCode)]
         IN  IF BuyRejected(account_, fund, shares)
             THEN [account |-> account_, alert |-> MsgInsufficientFunds]
             ELSE [account |->
                     WithAggregates(
                        account_,
                        BuyCashBalance(account_, TotalAmount(fund, shares)),
                        BuyPositions(account_.positions, fund, shares, t),
                        account_.transactions
                            \o <<BuyTransaction(fund, shares, t)>>),
                   alert |-> ""]

\* buyFund(fundCode, shares) at clock reading t: the new account and the alert
buyFund(account_, fundCode, shares, t) ==
    IF FundIndex(fundCode) = 0
    THEN [account |-> account_, alert |-> ""]
    ELSE LET fund == mockFunds[FundIndex(fundCode)]
         IN  IF BuyRejected(account_, fund, shares)
             THEN [account |-> account_, alert |-> MsgInsufficientFunds]
             ELSE [account |->
                     WithAggregates(
                        account_,
                        BuyCashBalance(account_, TotalAmount(fund, shares)),
                        BuyPositions(account_.positions, fund, shares, t),
                        <<BuyTransaction(fund, shares, t)>>
                            \o account_.transactions),
                   alert |-> ""]

\* a call of buyFund; cap bounds the length of the transaction list
BuyFund(fundCode, shares, t, cap) ==
    \E r \in {buyFund(account, fundCode, shares, t)} :
        /\ Len(r.account.transactions) <= cap
        /\ account' = r.account
        /\ last' = Call("buy", fundCode, shares, account, NoResult, r.alert)
        /\ now' = t
        /\ panel' = panel
        /\ UNCHANGED <<fundStore, pending, search>>

----------------------------------------------------------------------------
(* sellFund *)

\* mutant: the cost is scaled by sellRatio instead of 1 - sellRatio
SellPartial_SoldShare(p, position, fund, shares) ==
    LET sellRatio    == Div(shares, position.shares)
        newTotalCost == Mul(position.totalCost, sellRatio)
        newShares    == Sub(position.shares, shares)
    IN  [ p EXCEPT
            !.shares = newShares,
            !.totalCost = newTotalCost,
            !.avgCost = Div(newTotalCost, newShares),
            !.currentPrice = fund.price,
            !.marketValue = Mul(newShares, fund.price),
            !.profitLoss = Sub(Mul(newShares, fund.price), newTotalCost),
            !.profitLossPercent =
                Mul(Div(Sub(fund.price, Div(newTotalCost, newShares)),
                        Div(newTotalCost, newShares)),
                    Num(100)) ]

\* an entry p of the sold code after a partial sell: the proportional cost
\* reduction, computed from position, the first entry of that code
SellPartial(p, position, fund, shares) ==
    LET sellRatio    == Div(shares, position.shares)
        newTotalCost == Mul(position.totalCost, Sub(Num(1), sellRatio))
        newShares    == Sub(position.shares, shares)
    IN  [ p EXCEPT
            !.shares = newShares,
            !.totalCost = newTotalCost,
            !.avgCost = Div(newTotalCost, newShares),
            !.currentPrice = fund.price,
            !.marketValue = Mul(newShares, fund.price),
            !.profitLoss = Sub(Mul(newShares, fund.price), newTotalCost),
            !.profitLossPercent =
                Mul(Div(Sub(fund.price, Div(newTotalCost, newShares)),
                        Div(newTotalCost, newShares)),
                    Num(100)) ]

\* mutant: the proceeds are subtracted, as in buyFund
SellCashBalance_Subtract(account_, totalAmount) ==
    Sub(account_.cashBalance, totalAmount)

\* newCashBalance of sellFund
SellCashBalance(account_, totalAmount) ==
    Add(account_.cashBalance, totalAmount)

\* isFullSell = shares === position.shares
IsFullSell(position, shares) == StrictEq(shares, position.shares)

\* mutant: a full sell updates the position like a partial sell
SellPositions_ZeroOut(positions, position, fund, shares) ==
    [ i \in 1..Len(positions) |->
        IF positions[i].fundCode = position.fundCode
        THEN SellPartial(positions[i], position, fund, shares)
        ELSE positions[i] ]

\* newPositions of sellFund
SellPositions(positions, position, fund, shares) ==
    IF IsFullSell(position, shares)
    THEN FilterOut(positions, position.fundCode)
    ELSE [ i \in 1..Len(positions) |->
             IF positions[i].fundCode = position.fundCode
             THEN SellPartial(positions[i], position, fund, shares)
             ELSE positions[i] ]

\* mutant: every sell is recorded as partial
SellTransaction_AlwaysPartial(position, fund, shares, t) ==
    [ id          |-> t,
      fundCode    |-> fund.code,
      fundName    |-> fund.name,
      fundType    |-> fund.type,
      type        |-> "sell",
      sellType    |-> "partial",
      shares      |-> shares,
      price       |-> fund.price,
      totalAmount |-> TotalAmount(fund, shares),
      createdAt   |-> t ]

SellTransaction(position, fund, shares, t) ==
    [ id          |-> t,
      fundCode    |-> fund.code,
      fundName    |-> fund.name,
      fundType    |-> fund.type,
      type        |-> "sell",
      sellType    |-> IF IsFullSell(position, shares) THEN "full" ELSE "partial",
      shares      |-> shares,
      price       |-> fund.price,
      totalAmount |-> TotalAmount(fund, shares),
      createdAt   |-> t ]

\* mutant: the share count is checked before the position is looked up
SellRejection_SharesFirst(positions, fundCode, shares) ==
    IF Le(shares, Num(0)) THEN MsgInvalidShareCount
    ELSE IF FindIndex(positions, fundCode) = 0 THEN MsgPositionNotFound
    ELSE IF Gt(shares, positions[FindIndex(positions, fundCode)].shares)
         THEN MsgInsufficientShares
    ELSE ""

\* mutant: the check shares <= 0 is missing
SellRejection_NoShareCheck(positions, fundCode, shares) ==
    IF FindIndex(positions, fundCode) = 0 THEN MsgPositionNotFound
    ELSE IF Gt(shares, positions[FindIndex(positions, fundCode)].shares)
         THEN MsgInsufficientShares
    ELSE ""

\* the three checks of sellFund, in the order of the code: "" when all pass
SellRejection(positions, fundCode, shares) ==
    IF FindIndex(positions, fundCode) = 0 THEN MsgPositionNotFound
    ELSE IF Le(shares, Num(0)) THEN MsgInvalidShareCount
    ELSE IF Gt(shares, positions[FindIndex(positions, fundCode)].shares)
         THEN MsgInsufficientShares
    ELSE ""

\* the amount in the message of a rejection: position.shares.toFixed(2) for
\* insufficient shares, none otherwise
SellStated(positions, fundCode, shares) ==
    IF SellRejection(positions, fundCode, shares) = MsgInsufficientShares
    THEN <<ToFixed2(positions[FindIndex(positions, fundCode)].shares)>>
    ELSE << >>

\* sellFund(fundCode, shares) at clock reading t: the new account and the result
sellFund(account_, fundCode, shares, t) ==
    IF SellRejection(account_.positions, fundCode, shares) # ""
    THEN [account |-> account_,
          result  |->
            SellResult(FALSE,
                       SellRejection(account_.positions, fundCode, shares),
                       SellStated(account_.positions, fundCode, shares))]
    ELSE LET position == account_.positions[FindIndex(account_.positions, fundCode)]
             fund == mockFunds[FundIndex(fundCode)]
         IN  [account |->
                WithAggregates(
                    account_,
                    SellCashBalance(account_, TotalAmount(fund, shares)),
                    SellPositions(account_.positions, position, fund, shares),
                    <<SellTransaction(position, fund, shares, t)>>
                        \o account_.transactions),
              result |->
                SellResult(TRUE,
                           IF IsFullSell(position, shares)
                           THEN MsgFullSell ELSE MsgPartialSell,
                           << >>)]

\* a call of sellFund; cap bounds the length of the transaction list
SellFund(fundCode, shares, t, cap) ==
    \E r \in {sellFund(account, fundCode, shares, t)} :
        /\ Len(r.account.transactions) <= cap
        /\ account' = r.account
        /\ last' = Call("sell", fundCode, shares, account, r.result, "")
        /\ now' = t
        /\ panel' = panel
        /\ UNCHANGED <<fundStore, pending, search>>

----------------------------------------------------------------------------
(* updatePrices *)

\* mutant: the tick moves the cost basis to the new price
TickPosition_ReCosts(position, random) ==
    LET changePercent == Mul(Sub(random, Frac(1, 2)), Frac(6, 100))
        newPrice      == Mul(position.currentPrice, Add(Num(1), changePercent))
        marketValue   == Mul(position.shares, newPrice)
    IN  [ position EXCEPT
            !.avgCost = newPrice,
            !.currentPrice = newPrice,
            !.marketValue = marketValue,
            !.profitLoss = Sub(marketValue, position.totalCost),
            !.profitLossPercent =
                Mul(Div(Sub(newPrice, position.avgCost), position.avgCost),
                    Num(100)) ]

\* one position after a tick with Math.random() = random
TickPosition(position, random) ==
    LET changePercent == Mul(Sub(random, Frac(1, 2)), Frac(6, 100))
        newPrice      == Mul(position.currentPrice, Add(Num(1), changePercent))
        marketValue   == Mul(position.shares, newPrice)
    IN  [ position EXCEPT
            !.currentPrice = newPrice,
            !.marketValue = marketValue,
            !.profitLoss = Sub(marketValue, position.totalCost),
            !.profitLossPercent =
                Mul(Div(Sub(newPrice, position.avgCost), position.avgCost),
                    Num(100)) ]

\* mutant: the tick starts a new transaction list
updatePrices_ClearsLedger(account_, randoms) ==
    WithAggregates(
        account_,
        account_.cashBalance,
        [ i \in 1..Len(account_.positions) |->
            TickPosition(account_.positions[i], randoms[i]) ],
        << >>)

\* updatePrices() where randoms[i] is the value Math.random() returns for
\* the i-th position
updatePrices(account_, randoms) ==
    WithAggregates(
        account_,
        account_.cashBalance,
        [ i \in 1..Len(account_.positions) |->
            TickPosition(account_.positions[i], randoms[i]) ],
        account_.transactions)

\* the value of Math.random() that moves currentPrice to price q
RandomFor(currentPrice, q) ==
    Add(Div(Sub(Div(q, currentPrice), Num(1)), Frac(6, 100)), Frac(1, 2))

\* values of Math.random(), all in [0, 1): 1/2 (no change) and those that
\* move currentPrice onto the price grid
RandomInputs(currentPrice) ==
    { r \in {Frac(1, 2)} \cup { RandomFor(currentPrice, q) : q \in PriceGrid } :
        Le(Num(0), r) /\ Gt(Num(1), r) }

UpdatePrices(t) ==
    \E randoms \in [ 1..Len(account.positions) ->
                     UNION { RandomInputs(account.positions[i].currentPrice) :
                             i \in 1..Len(account.positions) } ] :
        /\ \A i \in 1..Len(account.positions) :
              randoms[i] \in RandomInputs(account.positions[i].currentPrice)
        /\ account' = updatePrices(account, randoms)
        /\ last' = Call("updatePrices", "", Num(0), account, NoResult, "")
        /\ now' = t
        /\ panel' = panel
        /\ UNCHANGED <<fundStore, pending, search>>

----------------------------------------------------------------------------
(* resetAccount *)

\* mutant: reset keeps the transaction list
resetAccount_KeepsLedger(account_) ==
    [ initialState EXCEPT !.transactions = account_.transactions ]

resetAccount(account_) == initialState

ResetAccount(t) ==
    /\ account' = resetAccount(account)
    /\ last' = Call("reset", "", Num(0), account, NoResult, "")
    /\ now' = t
    /\ panel' = panel
    /\ UNCHANGED <<fundStore, pending, search>>

----------------------------------------------------------------------------
(* The clock *)

\* the readings Date.now() may return to the next call: time does not run
\* backwards, and calls may fall within one reading
ClockInputs == { t \in now..(now + 1) : t <= MaxClock }

----------------------------------------------------------------------------

Next ==
    \/ \E args \in CallInputs, t \in ClockInputs :
            BuyFund(args[1], args[2], t, MaxTx)
    \/ \E args \in CallInputs, t \in ClockInputs :
            SellFund(args[1], args[2], t, MaxTx)
    \/ \E t \in ClockInputs : UpdatePrices(t)
    \/ \E t \in ClockInputs : ResetAccount(t)

Spec == Init /\ [][Next]_vars

----------------------------------------------------------------------------
(* The ledger under every value of the type number: the share counts of    *)
(* Spec and NaN, which no comparison of buyFund or sellFund turns away     *)

AnyShareInputs == ShareInputs \cup {NaN}

NextAnyShares ==
    \/ \E shares \in AnyShareInputs, t \in ClockInputs :
            BuyFund(TradedCode, shares, t, MaxTx)
    \/ \E shares \in AnyShareInputs, t \in ClockInputs :
            SellFund(TradedCode, shares, t, MaxTx)
    \/ \E t \in ClockInputs : UpdatePrices(t)
    \/ \E t \in ClockInputs : ResetAccount(t)

SpecAnyShares == Init /\ [][NextAnyShares]_vars

----------------------------------------------------------------------------
(* Trading alone, on doubles.  The share counts are doubles, so every      *)
(* amount the store computes is rounded as the program rounds it.  Prices  *)
(* stay at the reference prices: updatePrices is not called.               *)

\* cap on the length of account.transactions in these runs
MaxTxDouble == 3

\* share counts: those of the worked scenario of the specification
\* (100, 50, 150), and one with three decimals
DoubleShareInputs ==
    {Double(Num(50)), Double(Num(100)), Double(Num(150)), Double(Frac(1, 8))}

NextDouble ==
    \/ \E shares \in DoubleShareInputs, t \in ClockInputs :
            BuyFund(TradedCode, shares, t, MaxTxDouble)
    \/ \E shares \in DoubleShareInputs, t \in ClockInputs :
            SellFund(TradedCode, shares, t, MaxTxDouble)
    \/ \E t \in ClockInputs : ResetAccount(t)

SpecDouble == Init /\ [][NextDouble]_vars

----------------------------------------------------------------------------
(* The TradePanel component (src/components/FundSearch.tsx): the buttons of *)
(* the funds, the input of the share count, the buy button, the sell button *)
(* and the sell dialog.  A text is a sequence of characters.                *)

\* message of the alert of handleBuy, and of handleSellConfirm without a
\* selected fund (the source texts are Chinese)
MsgInvalidShares == "InvalidShares"

MsgNoFundSelected == "NoFundSelected"

DigitValue(c) ==
    CASE c = "0" -> 0 [] c = "1" -> 1 [] c = "2" -> 2 [] c = "3" -> 3
      [] c = "4" -> 4 [] c = "5" -> 5 [] c = "6" -> 6 [] c = "7" -> 7
      [] c = "8" -> 8 [] c = "9" -> 9

IsDigit(c) == c \in {"0", "1", "2", "3", "4", "5", "6", "7", "8", "9"}

\* the text without its leading blanks
RECURSIVE TrimStart(_)
TrimStart(text) ==
    IF text # << >> /\ Head(text) = " " THEN TrimStart(Tail(text)) ELSE text

\* the number of digits the text starts with
RECURSIVE DigitsPrefixLen(_)
DigitsPrefixLen(text) ==
    IF text # << >> /\ IsDigit(Head(text))
    THEN 1 + DigitsPrefixLen(Tail(text))
    ELSE 0

\* the value of a sequence of digits
RECURSIVE DigitsValue(_)
DigitsValue(digits) ==
    IF digits = << >> THEN 0
    ELSE 10 * DigitsValue(SubSeq(digits, 1, Len(digits) - 1))
            + DigitValue(digits[Len(digits)])

RECURSIVE Pow10(_)
Pow10(k) == IF k = 0 THEN 1 ELSE 10 * Pow10(k - 1)

\* parseFloat(text): the longest prefix, after leading blanks, that reads
\* as sign, digits, point, digits; NaN when it holds no digit.  Exponents and
\* the word Infinity are not read.
ParseFloat(text) ==
    LET t1       == TrimStart(text)
        signed   == t1 # << >> /\ Head(t1) \in {"-", "+"}
        t2       == IF signed THEN Tail(t1) ELSE t1
        k        == DigitsPrefixLen(t2)
        rest     == SubSeq(t2, k + 1, Len(t2))
        pointed  == rest # << >> /\ Head(rest) = "."
        f        == IF pointed THEN DigitsPrefixLen(Tail(rest)) ELSE 0
        whole    == DigitsValue(SubSeq(t2, 1, k))
        fraction == DigitsValue(SubSeq(rest, 2, f + 1))
        value    == Frac(whole * Pow10(f) + fraction, Pow10(f))
    IN  IF k = 0 /\ f = 0 THEN NaN
        ELSE IF signed /\ Head(t1) = "-" THEN Neg(value)
        ELSE value

\* Math.floor of a finite exact number
Floor(x) == Num(x[1] \div x[2])

\* cap on the length of account.transactions in the runs of the panel
MaxTxPanel == 2

\* texts typed into the share input: not a number, zero, negative, a small
\* count with trailing letters, a count with a fraction, and a count no
\* account can pay
BuyTexts ==
    { <<"x">>, <<"0">>, <<"-", "1">>, <<"2", "x">>, <<"1", ".", "5">>,
      <<"5", "0", "0", "0", "0">> }

\* what the panel's call of buyFund gave back; NotCalled when the handler
\* returned before calling the store
NotCalled == [kind |-> "notCalled", success |-> FALSE, message |-> "", stated |-> << >>]

\* onClick of a fund button: setSelectedFundCode(fund.code); setBuyShares("")
SelectFund(fundCode, t) ==
    /\ ~panel.sellDialogOpen
    /\ panel' = [panel EXCEPT !.selectedFundCode = fundCode,
                              !.buyShares = << >>]
    /\ last' = Call("selectFund", fundCode, Num(0), account, NotCalled, "")
    /\ UNCHANGED <<account, now, fundStore, pending, search>>

\* onChange of the share input: setBuyShares(e.target.value)
ChangeBuyShares(text, t) ==
    /\ ~panel.sellDialogOpen
    /\ panel.selectedFundCode # ""
    /\ panel' = [panel EXCEPT !.buyShares = text]
    /\ last' = Call("changeBuyShares", panel.selectedFundCode, Num(0),
                    account, NotCalled, "")
    /\ UNCHANGED <<account, now, fundStore, pending, search>>

\* buyFund(selectedFundCode, sharesNum); setBuyShares("") of handleBuy and
\* handleTrade, where bought is what buyFund gave
PanelBought(panel_, sharesNum, bought) ==
    [account |-> bought.account,
     panel   |-> [panel_ EXCEPT !.buyShares = << >>],
     shares  |-> sharesNum,
     result  |-> NoResult,
     alert   |-> bought.alert]

\* mutant: only a text that is no number is turned away
handleBuyOf_NoSignCheck(panel_, account_, t, sharesNum) ==
    IF IsNaN(sharesNum)
    THEN [account |-> account_, panel |-> panel_, shares |-> sharesNum,
          result |-> NotCalled, alert |-> MsgInvalidShares]
    ELSE PanelBought(panel_, sharesNum,
                     buyFund(account_, panel_.selectedFundCode, sharesNum, t))

\* handleBuy() from the number sharesNum that parseFloat gave on
handleBuyOf(panel_, account_, t, sharesNum) ==
    IF IsNaN(sharesNum) \/ Le(sharesNum, Num(0))
    THEN [account |-> account_, panel |-> panel_, shares |-> sharesNum,
          result |-> NotCalled, alert |-> MsgInvalidShares]
    ELSE PanelBought(panel_, sharesNum,
                     buyFund(account_, panel_.selectedFundCode, sharesNum, t))

\* handleBuy() at clock reading t: the account, the panel, the number read
\* from the input, what buyFund returned and the alert raised
handleBuy(panel_, account_, t) ==
    IF panel_.selectedFundCode = "" \/ panel_.buyShares = << >>
    THEN [account |-> account_, panel |-> panel_, shares |-> NaN,
          result |-> NotCalled, alert |-> ""]
    ELSE handleBuyOf(panel_, account_, t, ParseFloat(panel_.buyShares))

\* onClick of the buy button
HandleBuy(t) ==
    \E r \in {handleBuy(panel, account, t)} :
        /\ ~panel.sellDialogOpen
        /\ Len(r.account.transactions) <= MaxTxPanel
        /\ account' = r.account
        /\ panel' = r.panel
        /\ last' = Call("handleBuy", panel.selectedFundCode, r.shares,
                        account, r.result, r.alert)
        /\ now' = t
        /\ UNCHANGED <<fundStore, pending, search>>

\* handleTrade() from the number sharesNum that parseFloat gave on
handleTradeOf(panel_, tradeType, account_, t, sharesNum) ==
    IF IsNaN(sharesNum) \/ Le(sharesNum, Num(0))
    THEN [account |-> account_, panel |-> panel_, shares |-> sharesNum,
          result |-> NotCalled, alert |-> MsgInvalidShares]
    ELSE IF tradeType = "buy"
    THEN PanelBought(panel_, sharesNum,
                     buyFund(account_, panel_.selectedFundCode, sharesNum, t))
    ELSE [account |-> account_,
          panel |->
            IF FindIndex(account_.positions, panel_.selectedFundCode) # 0
            THEN [panel_ EXCEPT
                    !.selectedSellPosition =
                        <<account_.positions[FindIndex(account_.positions,
                                             panel_.selectedFundCode)]>>,
                    !.sellDialogOpen = TRUE]
            ELSE panel_,
          shares |-> sharesNum,
          result |-> NotCalled, alert |-> ""]

\* handleTrade() of the TradePanel of src/unnamed/part_003 at clock reading
\* t, whose share input is buyShares here; it stores the code of the
\* position to sell, and the dialog is handed the position of that code
handleTrade(panel_, tradeType, account_, t) ==
    IF panel_.selectedFundCode = "" \/ panel_.buyShares = << >>
    THEN [account |-> account_, panel |-> panel_, shares |-> NaN,
          result |-> NotCalled, alert |-> ""]
    ELSE handleTradeOf(panel_, tradeType, account_, t,
                       ParseFloat(panel_.buyShares))

\* onClick of the confirm button of the buy form, which is rendered while
\* tradeType is "buy"
HandleTrade(t) ==
    \E r \in {handleTrade(panel, "buy", account, t)} :
        /\ ~panel.sellDialogOpen
        /\ Len(r.account.transactions) <= MaxTxPanel
        /\ account' = r.account
        /\ panel' = r.panel
        /\ last' = Call("handleTrade", panel.selectedFundCode, r.shares,
                        account, r.result, r.alert)
        /\ now' = t
        /\ UNCHANGED <<fundStore, pending, search>>

\* onClick of the sell button: the dialog opens on the position of the
\* selected fund, if there is one
HandleSellClick(t) ==
    /\ ~panel.sellDialogOpen
    /\ panel' =
         IF panel.selectedFundCode # ""
            /\ FindIndex(account.positions, panel.selectedFundCode) # 0
         THEN [panel EXCEPT
                 !.selectedSellPosition =
                     <<account.positions[FindIndex(account.positions,
                                                   panel.selectedFundCode)]>>,
                 !.sellDialogOpen = TRUE]
         ELSE panel
    /\ last' = Call("handleSellClick", panel.selectedFundCode, Num(0),
                    account, NotCalled, "")
    /\ UNCHANGED <<account, now, fundStore, pending, search>>

\* onClose of the sell dialog: setSellDialogOpen(false)
CloseSellDialog(t) ==
    /\ panel.sellDialogOpen
    /\ panel' = [panel EXCEPT !.sellDialogOpen = FALSE]
    /\ last' = Call("closeSellDialog", panel.selectedFundCode, Num(0),
                    account, NotCalled, "")
    /\ UNCHANGED <<account, now, fundStore, pending, search>>

\* handleSellConfirm(sellShares) at clock reading t
handleSellConfirm(panel_, account_, sellShares, t) ==
    IF panel_.selectedFundCode = ""
    THEN [account |-> account_, panel |-> panel_,
          result |-> SellResult(FALSE, MsgNoFundSelected, << >>)]
    ELSE LET r == sellFund(account_, panel_.selectedFundCode, sellShares, t)
         IN  [account |-> r.account,
              panel   |-> IF r.result.success
                          THEN [panel_ EXCEPT !.selectedFundCode = "",
                                              !.sellDialogOpen = FALSE]
                          ELSE panel_,
              result  |-> r.result]

\* share counts the sell dialog passes to onConfirm: whole numbers from 1 to
\* Math.floor(position.shares) of the position the dialog was opened on
DialogShareInputs ==
    IF panel.selectedSellPosition = << >> THEN {}
    ELSE LET maxShares == Floor(panel.selectedSellPosition[1].shares)
         IN  { x \in {Num(1), maxShares} : Gt(x, Num(0)) /\ Le(x, maxShares) }

\* the confirm button of the sell dialog, shown while the dialog is open
HandleSellConfirm(sellShares, t) ==
    \E r \in {handleSellConfirm(panel, account, sellShares, t)} :
        /\ panel.sellDialogOpen
        /\ Len(r.account.transactions) <= MaxTxPanel
        /\ account' = r.account
        /\ panel' = r.panel
        /\ last' = Call("handleSellConfirm", panel.selectedFundCode,
                        sellShares, account, r.result, "")
        /\ now' = t
        /\ UNCHANGED <<fundStore, pending, search>>

NextPanel ==
    \/ \E t \in ClockInputs : SelectFund(TradedCode, t)
    \/ \E text \in BuyTexts, t \in ClockInputs : ChangeBuyShares(text, t)
    \/ \E t \in ClockInputs : HandleBuy(t)
    \/ \E t \in ClockInputs : HandleTrade(t)
    \/ \E t \in ClockInputs : HandleSellClick(t)
    \/ \E t \in ClockInputs : CloseSellDialog(t)
    \/ \E sellShares \in DialogShareInputs, t \in ClockInputs :
            HandleSellConfirm(sellShares, t)

SpecPanel == Init /\ [][NextPanel]_vars

----------------------------------------------------------------------------
(* The fund store (src/store/fundStore.ts) and its providers               *)
(* (getFundList, getFundQuote of src/unnamed/part_001).  Each of the three *)
(* asynchronous operations runs in two steps: the call up to its await,    *)
(* and what it does once the provider has answered.                        *)

MsgQuoteFailed == "QuoteFailed"

\* calls in flight at a time, and entries the user adds in a run
MaxPending == 2

MaxCustom == 2

\* a code of the initial popular set, and a code outside of it
PopularCode == "000001"

NewCode == "320007"

CodeInputs == {PopularCode, NewCode}

\* a FundInfo of the list provider
FundInfo(code, name, type, company, value, day_growth) ==
    [code |-> code, name |-> name, type |-> type, company |-> company,
     value |-> value, day_growth |-> day_growth]

\* what response.json() of the list endpoint may hold: an empty list, a
\* list without most codes of mockFunds, or something that is no array
ListBodies ==
    { [isArray |-> TRUE, items |-> << >>],
      [isArray |-> TRUE,
       items |-> << FundInfo(NewCode, "NordeaGreenIndex", "index", "Nordea",
                             Frac(3, 2), Frac(1, 10)),
                    FundInfo(PopularCode, "HuaxiaGrowthMix", "mix", "Huaxia",
                             Frac(5, 4), Frac(7, 10)) >>],
      [isArray |-> FALSE, items |-> << >>] }

\* the answers to fetch(.../api/funds/list): no answer or a status other
\* than ok, or ok with a body
ListResponses ==
    {[ok |-> FALSE, body |-> [isArray |-> FALSE, items |-> << >>]]}
        \cup {[ok |-> TRUE, body |-> b] : b \in ListBodies}

\* getFundList(): the body of an ok response, [] for every failure
getFundList(response) ==
    IF response.ok THEN response.body
    ELSE [isArray |-> TRUE, items |-> << >>]

\* a FundQuote; NoQuote is null
Quote(code, name, value, day_growth) ==
    [isNull |-> FALSE, code |-> code, name |-> name, value |-> value,
     day_growth |-> day_growth]

NoQuote ==
    [isNull |-> TRUE, code |-> "", name |-> "", value |-> NaN,
     day_growth |-> NaN]

\* the bodies the quote endpoint may answer a request for code with: two
\* quotes of that code, and one that carries another code than requested
QuoteBodies(code) ==
    { Quote(code, "Quoted", Frac(2, 1), Frac(1, 4)),
      Quote(code, "Quoted", Frac(3, 1), Frac(-1, 4)),
      Quote(IF code = NewCode THEN PopularCode ELSE NewCode, "Quoted",
            Frac(2, 1), Frac(1, 4)) }

\* the answers to fetch(.../api/funds/${code}/quote)
QuoteResponses(code) ==
    {[ok |-> FALSE, body |-> NoQuote]}
        \cup {[ok |-> TRUE, body |-> b] : b \in QuoteBodies(code) \cup {NoQuote}}

\* getFundQuote(code): the body of an ok response, null for every failure
getFundQuote(response) ==
    IF response.ok THEN response.body ELSE NoQuote

\* mutant: a key already there is deleted and inserted anew at the end
MapSet_Reinsert(entries, fund) ==
    Append(SelectSeq(entries, LAMBDA e : e.code # fund.code), fund)

\* allFundsMap.set(fund.code, fund) on the entries of a Map in insertion
\* order: a key already there keeps its place and takes the new value
MapSet(entries, fund) ==
    IF \E i \in 1..Len(entries) : entries[i].code = fund.code
    THEN [i \in 1..Len(entries) |->
            IF entries[i].code = fund.code THEN fund ELSE entries[i]]
    ELSE Append(entries, fund)

\* funds.forEach((fund) => allFundsMap.set(fund.code, fund)), from the
\* n-th fund on
RECURSIVE MapSetFrom(_, _, _)
MapSetFrom(entries, funds, n) ==
    IF n > Len(funds) THEN entries
    ELSE MapSetFrom(MapSet(entries, funds[n]), funds, n + 1)

\* mutant: the popular entry wins on a code both sets hold
MergedView_PopularWins(popularFunds, customFunds) ==
    MapSetFrom(MapSetFrom(<< >>, customFunds, 1), popularFunds, 1)

\* Array.from(allFundsMap.values()) of getAllFunds
MergedView(popularFunds, customFunds) ==
    MapSetFrom(MapSetFrom(<< >>, popularFunds, 1), customFunds, 1)

\* getAllFunds(): the store with allFunds recomputed
getAllFunds(store) ==
    [store EXCEPT !.allFunds = MergedView(store.popularFunds, store.customFunds)]

\* what a call of the fund store leaves behind: the call, the store it
\* found, the provider's answer, what the call returned and its alert
CatalogCall(op, code, pre, response, result, alert) ==
    [op |-> op, fundCode |-> code, shares |-> Num(0), pre |-> pre,
     response |-> response, result |-> result, alert |-> alert]

\* the record of a step that received no answer and returned nothing
NoResponse == [ok |-> FALSE, body |-> NoQuote]

\* funds.map(...) of loadPopularFunds
ConvertedFunds(items) ==
    [i \in 1..Len(items) |->
        Fund(items[i].code, items[i].name, items[i].type, items[i].company,
             items[i].value, items[i].day_growth)]

\* loadPopularFunds() up to its await
loadPopularFundsCall(store) == [store EXCEPT !.isLoading = TRUE]

\* mutant: the merged view is not recomputed after the popular set is set
loadPopularFundsThen_NoMerge(store, funds) ==
    IF funds.isArray
    THEN [store EXCEPT !.popularFunds = ConvertedFunds(funds.items),
                       !.isLoading = FALSE]
    ELSE [store EXCEPT !.isLoading = FALSE]

\* loadPopularFunds() from the answer of getFundList on: funds.map throws
\* when funds is no array, and the catch block keeps the store
loadPopularFundsThen(store, funds) ==
    IF funds.isArray
    THEN [getAllFunds([store EXCEPT !.popularFunds = ConvertedFunds(funds.items)])
            EXCEPT !.isLoading = FALSE]
    ELSE [store EXCEPT !.isLoading = FALSE]

\* mutant: a lookup that returned nothing adds the bare code
addCustomFundThen_AddsUnquoted(store, code, quote) ==
    IF quote.isNull
    THEN [store |-> getAllFunds([store EXCEPT !.customFunds =
                        Append(store.customFunds,
                               Fund(code, "", "mix", "", NaN, NaN))]),
          returned |-> << >>, alert |-> MsgQuoteFailed]
    ELSE [store |->
            IF \E i \in 1..Len(store.customFunds) :
                   store.customFunds[i].code = code
            THEN store
            ELSE getAllFunds([store EXCEPT !.customFunds =
                    Append(store.customFunds,
                           Fund(quote.code, quote.name, "mix", "",
                                quote.value, quote.day_growth))]),
          returned |-> <<Fund(quote.code, quote.name, "mix", "",
                              quote.value, quote.day_growth)>>,
          alert |-> ""]

\* mutant: an entry already there is replaced by the new quote
addCustomFundThen_Replace(store, code, quote) ==
    IF quote.isNull
    THEN [store |-> store, returned |-> << >>, alert |-> MsgQuoteFailed]
    ELSE LET newFund == Fund(quote.code, quote.name, "mix", "",
                             quote.value, quote.day_growth)
         IN  [store |->
                getAllFunds([store EXCEPT !.customFunds =
                    IF \E i \in 1..Len(store.customFunds) :
                           store.customFunds[i].code = code
                    THEN [i \in 1..Len(store.customFunds) |->
                            IF store.customFunds[i].code = code
                            THEN newFund ELSE store.customFunds[i]]
                    ELSE Append(store.customFunds, newFund)]),
              returned |-> <<newFund>>,
              alert |-> ""]

\* addCustomFund(code) from the answer of getFundQuote on: the store, the
\* returned Fund (<< >> is null) and the alert
addCustomFundThen(store, code, quote) ==
    IF quote.isNull
    THEN [store |-> store, returned |-> << >>, alert |-> MsgQuoteFailed]
    ELSE LET newFund == Fund(quote.code, quote.name, "mix", "",
                             quote.value, quote.day_growth)
         IN  [store |->
                IF \E i \in 1..Len(store.customFunds) :
                       store.customFunds[i].code = code
                THEN store
                ELSE getAllFunds([store EXCEPT
                        !.customFunds = Append(store.customFunds, newFund)]),
              returned |-> <<newFund>>,
              alert |-> ""]

\* funds.map((f) => f.code === code ? { ...f, price, dayGrowth } : f)
Requoted(funds, code, quote) ==
    [i \in 1..Len(funds) |->
        IF funds[i].code = code
        THEN [funds[i] EXCEPT !.price = quote.value,
                              !.dayGrowth = quote.day_growth]
        ELSE funds[i]]

\* mutant: only the popular set takes the new quote
updateFundPriceThen_PopularOnly(store, code, quote) ==
    IF quote.isNull THEN store
    ELSE getAllFunds([store EXCEPT
            !.popularFunds = Requoted(store.popularFunds, code, quote)])

\* updateFundPrice(code) from the answer of getFundQuote on
updateFundPriceThen(store, code, quote) ==
    IF quote.isNull THEN store
    ELSE getAllFunds([store EXCEPT
            !.popularFunds = Requoted(store.popularFunds, code, quote),
            !.customFunds  = Requoted(store.customFunds, code, quote)])

\* pending without its i-th call
Settled(i) == [j \in 1..(Len(pending) - 1) |->
                  IF j < i THEN pending[j] ELSE pending[j + 1]]

\* a caller invokes loadPopularFunds(): the call runs up to await getFundList()
LoadPopularFunds ==
    /\ Len(pending) < MaxPending
    /\ fundStore' = loadPopularFundsCall(fundStore)
    /\ pending' = Append(pending, [op |-> "loadPopularFunds", code |-> ""])
    /\ last' = CatalogCall("call", "", fundStore, NoResponse, << >>, "")
    /\ UNCHANGED <<account, now, panel, search>>

\* a caller invokes addCustomFund(code): the call runs up to await getFundQuote(code)
AddCustomFund(code) ==
    /\ Len(pending) < MaxPending
    /\ Len(fundStore.customFunds) < MaxCustom
    /\ pending' = Append(pending, [op |-> "addCustomFund", code |-> code])
    /\ last' = CatalogCall("call", code, fundStore, NoResponse, << >>, "")
    /\ UNCHANGED <<account, now, panel, fundStore, search>>

\* a caller invokes updateFundPrice(code): the call runs up to await getFundQuote(code)
UpdateFundPrice(code) ==
    /\ Len(pending) < MaxPending
    /\ pending' = Append(pending, [op |-> "updateFundPrice", code |-> code])
    /\ last' = CatalogCall("call", code, fundStore, NoResponse, << >>, "")
    /\ UNCHANGED <<account, now, panel, fundStore, search>>

\* the list provider answers the i-th pending call, and loadPopularFunds
\* runs to its end
LoadPopularFundsThen(i, response) ==
    /\ pending[i].op = "loadPopularFunds"
    /\ fundStore' = loadPopularFundsThen(fundStore, getFundList(response))
    /\ pending' = Settled(i)
    /\ last' = CatalogCall("loadPopularFunds", "", fundStore, response, << >>, "")
    /\ UNCHANGED <<account, now, panel, search>>

\* the quote provider answers the i-th pending call, and addCustomFund runs
\* to its end
AddCustomFundThen(i, response) ==
    \E r \in {addCustomFundThen(fundStore, pending[i].code, getFundQuote(response))} :
        /\ pending[i].op = "addCustomFund"
        /\ fundStore' = r.store
        /\ pending' = Settled(i)
        /\ last' = CatalogCall("addCustomFund", pending[i].code, fundStore,
                               response, r.returned, r.alert)
        /\ UNCHANGED <<account, now, panel, search>>

\* the quote provider answers the i-th pending call, and updateFundPrice
\* runs to its end
UpdateFundPriceThen(i, response) ==
    /\ pending[i].op = "updateFundPrice"
    /\ fundStore' = updateFundPriceThen(fundStore, pending[i].code,
                                        getFundQuote(response))
    /\ pending' = Settled(i)
    /\ last' = CatalogCall("updateFundPrice", pending[i].code, fundStore,
                           response, << >>, "")
    /\ UNCHANGED <<account, now, panel, search>>

NextCatalog ==
    \/ LoadPopularFunds
    \/ \E code \in CodeInputs : AddCustomFund(code)
    \/ \E code \in CodeInputs : UpdateFundPrice(code)
    \/ \E i \in 1..Len(pending), response \in ListResponses :
            LoadPopularFundsThen(i, response)
    \/ \E i \in 1..Len(pending) :
            \E response \in QuoteResponses(pending[i].code) :
                AddCustomFundThen(i, response)
    \/ \E i \in 1..Len(pending) :
            \E response \in QuoteResponses(pending[i].code) :
                UpdateFundPriceThen(i, response)

SpecCatalog == Init /\ [][NextCatalog]_vars

----------------------------------------------------------------------------
(* FundSearch *)

MaxSearches == 3

\* what the user may type: texts of 0 to 3 characters
QueryInputs == { << >>, <<"a">>, <<"a", "b">>, <<"a", "b", "c">> }

\* a FundSearchResult
SearchResult(code, name, type) == [code |-> code, name |-> name, type |-> type]

\* what response.json() of the search endpoint may hold for a query: no
\* match, or a list that depends on the query
SearchBodies(query) ==
    { << >>,
      IF Len(query) = 2
      THEN << SearchResult("000001", "abc", "mix"),
              SearchResult("320007", "abd", "index") >>
      ELSE << SearchResult("000001", "abc", "mix") >> }

SearchResponses(query) ==
    {[ok |-> FALSE, body |-> << >>]}
        \cup {[ok |-> TRUE, body |-> b] : b \in SearchBodies(query)}

\* searchFunds(query, limit): [] for a query of less than 2 characters and
\* for every failure, the body of an ok response otherwise
searchFunds(query, response) ==
    IF Len(query) < 2 THEN << >>
    ELSE IF response.ok THEN response.body ELSE << >>

\* onChange: setQuery(value); the effect clears the timer of the old query
\* and sets one for the new query
ChangeQuery(q) ==
    /\ q # search.query
    /\ search' = [search EXCEPT !.query = q, !.timer = TRUE]
    /\ UNCHANGED <<account, now, last, panel, fundStore, pending>>

\* the timer fires 300 ms after the last change: a query of 2 characters or
\* more is sent to searchFunds, a shorter one clears the results
TimerFires ==
    /\ search.timer
    /\ search.issued < MaxSearches
    /\ search' =
            IF Len(search.query) >= 2
            THEN [search EXCEPT
                    !.timer = FALSE,
                    !.loading = TRUE,
                    !.issued = search.issued + 1,
                    !.inFlight = Append(search.inFlight,
                                        [id |-> search.issued + 1,
                                         query |-> search.query])]
            ELSE [search EXCEPT
                    !.timer = FALSE,
                    !.results = << >>,
                    !.showResults = FALSE,
                    !.issued = search.issued + 1,
                    !.latest = << >>]
    /\ UNCHANGED <<account, now, last, panel, fundStore, pending>>

\* the searches in flight without search i
Answered(i) ==
    [j \in 1..(Len(search.inFlight) - 1) |->
        IF j < i THEN search.inFlight[j] ELSE search.inFlight[j + 1]]

\* the continuation of the timer callback once searchFunds has answered
\* search i: setResults(data), setShowResults(true), setLoading(false)
SearchReturns(i, response) ==
    /\ search' =
            [search EXCEPT
                !.results = searchFunds(search.inFlight[i].query, response),
                !.showResults = TRUE,
                !.loading = FALSE,
                !.inFlight = Answered(i),
                !.latest =
                    IF search.inFlight[i].id = search.issued
                    THEN searchFunds(search.inFlight[i].query, response)
                    ELSE search.latest]
    /\ UNCHANGED <<account, now, last, panel, fundStore, pending>>

\* handleSelect(fund) on a row of the list: the query and the results are
\* cleared; a query that changes sets the timer anew
HandleSelect ==
    /\ search.showResults
    /\ Len(search.results) > 0
    /\ search' = [search EXCEPT
                    !.query = << >>,
                    !.results = << >>,
                    !.showResults = FALSE,
                    !.timer = (search.query # << >>) \/ search.timer]
    /\ UNCHANGED <<account, now, last, panel, fundStore, pending>>

NextSearch ==
    \/ \E q \in QueryInputs : ChangeQuery(q)
    \/ TimerFires
    \/ \E i \in 1..Len(search.inFlight) :
            \E response \in SearchResponses(search.inFlight[i].query) :
                SearchReturns(i, response)
    \/ HandleSelect

SpecSearch == Init /\ [][NextSearch]_vars

----------------------------------------------------------------------------
(* Properties of the ledger *)

\* the fund, and the position before and after, of the last call
LastFund == mockFunds[FundIndex(last.fundCode)]

PrePosition == last.pre.positions[FindIndex(last.pre.positions, last.fundCode)]

PostPosition == account.positions[FindIndex(account.positions, last.fundCode)]

HeldBefore == FindIndex(last.pre.positions, last.fundCode) # 0

HeldAfter == FindIndex(account.positions, last.fundCode) # 0

\* the last call was a buy of a listed fund that raised no alert
BuyAccepted ==
    last.op = "buy" /\ FundIndex(last.fundCode) # 0 /\ last.alert = ""

\* the last call was a sell that returned success
SellAccepted == last.op = "sell" /\ last.result.success

\* seq without its i-th element
RemoveAt(seq, i) == SubSeq(seq, 1, i - 1) \o SubSeq(seq, i + 1, Len(seq))

\* sums of shares and of shares * price over the transactions of one code
RECURSIVE TradedShares(_, _)
TradedShares(transactions, code) ==
    IF transactions = << >> THEN Num(0)
    ELSE Add(TradedShares(Tail(transactions), code),
             IF Head(transactions).fundCode = code
             THEN Head(transactions).shares ELSE Num(0))

RECURSIVE TradedCost(_, _)
TradedCost(transactions, code) ==
    IF transactions = << >> THEN Num(0)
    ELSE Add(TradedCost(Tail(transactions), code),
             IF Head(transactions).fundCode = code
             THEN Mul(Head(transactions).shares, Head(transactions).price)
             ELSE Num(0))

\* C1: a buy whose cost shares * price exceeds cashBalance raises the
\* insufficient-funds alert and leaves the whole account as it was
C1_InsufficientFundsBuyChangesNothing ==
    ( /\ last.op = "buy"
      /\ FundIndex(last.fundCode) # 0
      /\ Gt(Mul(last.shares, LastFund.price), last.pre.cashBalance) )
    => /\ account = last.pre
       /\ last.alert = MsgInsufficientFunds

\* a buy was rejected for its cost, with other buys already in the ledger
C1_Witness ==
    /\ last.op = "buy"
    /\ FundIndex(last.fundCode) # 0
    /\ Gt(Mul(last.shares, LastFund.price), last.pre.cashBalance)
    /\ account.positions # << >>
    /\ account = last.pre

\* C2: no position of account.positions has shares = 0
C2_NoZeroSharePosition ==
    \A i \in 1..Len(account.positions) :
        account.positions[i].shares # Num(0)

\* C3: the aggregates agree with the rest of the account: totalAssets is
\* cashBalance plus the market values, profitLoss is totalAssets - 100000
\* and profitLossPercent is profitLoss / 100000 * 100
C3_AggregatesConsistent ==
    /\ account.totalAssets =
          Add(account.cashBalance, SumMarketValue(account.positions))
    /\ account.profitLoss = Sub(account.totalAssets, Num(InitialCapital))
    /\ account.profitLossPercent =
          Mul(Div(account.profitLoss, Num(InitialCapital)), Num(100))

\* a price tick has moved the total assets of a non-empty portfolio
C3_Witness ==
    /\ last.op = "updatePrices"
    /\ account.positions # << >>
    /\ account.totalAssets # last.pre.totalAssets
    /\ account.profitLoss # Num(0)

\* C4: an accepted buy lowers cashBalance by shares * price, an accepted
\* sell raises it by shares * price, and every other call but reset leaves
\* cashBalance alone
C4_CashMovesByTheTradedAmount ==
    /\ BuyAccepted =>
          account.cashBalance =
              Sub(last.pre.cashBalance, Mul(last.shares, LastFund.price))
    /\ SellAccepted =>
          account.cashBalance =
              Add(last.pre.cashBalance, Mul(last.shares, LastFund.price))
    /\ (~BuyAccepted /\ ~SellAccepted /\ last.op # "reset") =>
          account.cashBalance = last.pre.cashBalance

\* a sell was accepted after a buy and has moved the cash
C4_Witness ==
    /\ SellAccepted
    /\ Len(account.transactions) = 2
    /\ account.cashBalance # last.pre.cashBalance

\* C5: a buy on a held code adds shares * price to totalCost and shares to
\* shares and sets avgCost to their quotient; so while the ledger holds no
\* sell of a code, the avgCost of its position is the bought cost over the
\* bought shares (when the bought shares are not zero)
C5_WeightedAverageCost ==
    /\ (BuyAccepted /\ HeldBefore) =>
          /\ HeldAfter
          /\ PostPosition.totalCost =
                Add(PrePosition.totalCost, Mul(last.shares, LastFund.price))
          /\ PostPosition.shares = Add(PrePosition.shares, last.shares)
          /\ PostPosition.avgCost =
                Div(PostPosition.totalCost, PostPosition.shares)
    /\ \A i \in 1..Len(account.positions) :
          LET code == account.positions[i].fundCode
          IN  ( /\ \A k \in 1..Len(account.transactions) :
                      account.transactions[k].fundCode = code
                         => account.transactions[k].type = "buy"
                /\ TradedShares(account.transactions, code) # Num(0) )
              => account.positions[i].avgCost =
                    Div(TradedCost(account.transactions, code),
                        TradedShares(account.transactions, code))

\* a held position was bought again, with a different share count
C5_Witness ==
    /\ BuyAccepted
    /\ HeldBefore
    /\ Gt(PrePosition.shares, Num(0))
    /\ Gt(last.shares, Num(0))
    /\ last.shares # PrePosition.shares
    /\ PostPosition.shares = Add(PrePosition.shares, last.shares)

C8_OnePositionPerCode ==
    \A i, j \in 1..Len(account.positions) :
        account.positions[i].fundCode = account.positions[j].fundCode => i = j

\* a code that was already held was bought again
C8_Witness ==
    /\ BuyAccepted
    /\ HeldBefore
    /\ Len(account.positions) = Len(last.pre.positions)

\* C9: a sell of a code that is not held returns failure with the
\* position-not-found message, whatever the share count, and leaves the
\* account as it was
C9_SellWithoutPositionIsRejected ==
    (last.op = "sell" /\ ~HeldBefore) =>
        /\ last.result = SellResult(FALSE, MsgPositionNotFound, << >>)
        /\ account = last.pre

\* a sell of a code that is not held, with a share count that is not positive
C9_Witness ==
    /\ last.op = "sell"
    /\ ~HeldBefore
    /\ Le(last.shares, Num(0))
    /\ last.result.message = MsgPositionNotFound

\* C10: a sell of a held code with shares <= 0 returns failure with the
\* invalid-share-count message and leaves the account as it was
C10_SellOfNonPositiveSharesIsRejected ==
    (last.op = "sell" /\ HeldBefore /\ Le(last.shares, Num(0))) =>
        /\ last.result = SellResult(FALSE, MsgInvalidShareCount, << >>)
        /\ account = last.pre

\* a sell of zero or fewer shares of a held code
C10_Witness ==
    /\ last.op = "sell"
    /\ HeldBefore
    /\ Le(last.shares, Num(0))
    /\ last.result.message = MsgInvalidShareCount

----------------------------------------------------------------------------
\* C11 -- a sell of more shares than the position holds returns success
\* false and leaves the account unchanged; its message states the shares of
\* the position with two decimals, and a sell of the stated amount would not
\* be rejected as exceeding the position
C11_RejectionStatesTheSellableAmount ==
    (/\ last.op = "sell"
     /\ HeldBefore
     /\ Gt(last.shares, Num(0))
     /\ Gt(last.shares, PrePosition.shares))
    => /\ last.result =
            SellResult(FALSE, MsgInsufficientShares,
                       <<ToFixed2(PrePosition.shares)>>)
       /\ account = last.pre
       /\ SellRejection(account.positions, last.fundCode,
                        OfHundredths(last.result.stated[1]))
            # MsgInsufficientShares

----------------------------------------------------------------------------
\* the transaction a successful buy or sell has put first
NewTransaction == account.transactions[1]

\* C12 -- for every successful sell the message, the sellType of the new
\* transaction and the presence of the position agree: the full-sell message
\* exactly when sellType is full, exactly when the position is gone;
\* otherwise the partial-sell message, sellType partial, and the position
\* still there with fewer shares
C12_SellOutcomesAgree ==
    SellAccepted =>
        /\ (last.result.message = MsgFullSell)
              <=> (NewTransaction.sellType = "full")
        /\ (NewTransaction.sellType = "full") <=> ~HeldAfter
        /\ last.result.message # MsgFullSell =>
              /\ last.result.message = MsgPartialSell
              /\ NewTransaction.sellType = "partial"
              /\ HeldAfter
              /\ Gt(PrePosition.shares, PostPosition.shares)

C12_Witness ==
    /\ SellAccepted
    /\ last.result.message = MsgPartialSell
    /\ NewTransaction.sellType = "partial"
    /\ HeldAfter

----------------------------------------------------------------------------
\* a buy or sell that changed nothing
TradeFailed ==
    /\ last.op \in {"buy", "sell"}
    /\ ~BuyAccepted
    /\ ~SellAccepted

\* C13 -- every successful buy or sell puts exactly one transaction at the
\* front of the list (type buy without sellType, or type sell with one;
\* shares and price as executed; totalAmount = shares * price) and keeps the
\* earlier transactions behind it in their order; a failed buy or sell adds
\* none
C13_OneTransactionPerTrade ==
    /\ (BuyAccepted \/ SellAccepted) =>
          /\ Len(account.transactions) = Len(last.pre.transactions) + 1
          /\ Tail(account.transactions) = last.pre.transactions
          /\ NewTransaction.type = last.op
          /\ NewTransaction.fundCode = last.fundCode
          /\ NewTransaction.shares = last.shares
          /\ NewTransaction.price = LastFund.price
          /\ NewTransaction.totalAmount = Mul(last.shares, LastFund.price)
          /\ (last.op = "buy") <=> (NewTransaction.sellType = "none")
          /\ (last.op = "sell") <=> (NewTransaction.sellType \in {"full", "partial"})
    /\ TradeFailed => account.transactions = last.pre.transactions

C13_Witness ==
    /\ SellAccepted
    /\ Len(last.pre.transactions) = 1
    /\ NewTransaction.type = "sell"
    /\ account.transactions[2] = last.pre.transactions[1]
    /\ account.transactions[2].type = "buy"

----------------------------------------------------------------------------
\* every transaction of the list before the call is in the list after it
LedgerKept ==
    \A i \in 1..Len(last.pre.transactions) :
        \E j \in 1..Len(account.transactions) :
            account.transactions[j] = last.pre.transactions[i]

\* C14, as claimed -- after every operation (buy, sell, updatePrices,
\* reset) every transaction present before it is still present, with
\* identical fields
C14_TransactionsNeverDeleted ==
    last.op \in {"buy", "sell", "updatePrices", "reset"} => LedgerKept

\* C14, amended -- buy, sell and updatePrices keep every transaction present
\* before them, with identical fields and in the same order behind any new
\* one; reset deletes them all
C14_TransactionsDeletedOnlyByReset ==
    /\ last.op \in {"buy", "sell", "updatePrices"} =>
          /\ LedgerKept
          /\ \E k \in 0..1 :
                SubSeq(account.transactions, k + 1, Len(account.transactions))
                    = last.pre.transactions
    /\ last.op = "reset" => account.transactions = << >>

C14_Witness ==
    /\ last.op = "updatePrices"
    /\ Len(last.pre.transactions) = 2
    /\ account.transactions = last.pre.transactions
    /\ account.positions # last.pre.positions

----------------------------------------------------------------------------
\* C15 -- in every reachable state no two transactions have the same id,
\* also when two operations fall within one clock reading
C15_TransactionIdsUnique ==
    \A i, j \in 1..Len(account.transactions) :
        i # j => account.transactions[i].id # account.transactions[j].id

----------------------------------------------------------------------------
\* C16 -- updatePrices leaves cashBalance and the transaction list
\* unchanged, adds and removes no position, and changes nothing of a
\* position but currentPrice, marketValue, profitLoss and profitLossPercent
C16_UpdatePricesFrame ==
    last.op = "updatePrices" =>
        /\ account.cashBalance = last.pre.cashBalance
        /\ account.transactions = last.pre.transactions
        /\ Len(account.positions) = Len(last.pre.positions)
        /\ \A i \in 1..Len(account.positions) :
              LET before == last.pre.positions[i]
                  after  == account.positions[i]
              IN  /\ after.fundCode = before.fundCode
                  /\ after.shares = before.shares
                  /\ after.totalCost = before.totalCost
                  /\ after.avgCost = before.avgCost
                  /\ [ after EXCEPT
                         !.currentPrice = before.currentPrice,
                         !.marketValue = before.marketValue,
                         !.profitLoss = before.profitLoss,
                         !.profitLossPercent = before.profitLossPercent ]
                       = before

C16_Witness ==
    /\ last.op = "updatePrices"
    /\ Len(account.positions) = 2
    /\ account.positions[1].currentPrice # last.pre.positions[1].currentPrice
    /\ account.totalAssets # last.pre.totalAssets

----------------------------------------------------------------------------
\* C17 -- in every reachable state every position satisfies
\* avgCost = totalCost / shares, marketValue = shares * currentPrice and
\* profitLoss = marketValue - totalCost
C17_DerivedFieldsOfPositions ==
    \A i \in 1..Len(account.positions) :
        LET p == account.positions[i]
        IN  /\ p.avgCost = Div(p.totalCost, p.shares)
            /\ p.marketValue = Mul(p.shares, p.currentPrice)
            /\ p.profitLoss = Sub(p.marketValue, p.totalCost)

----------------------------------------------------------------------------
\* C18 -- reset yields the initial account (cashBalance = totalAssets =
\* 100000, profitLoss = profitLossPercent = 0, no positions, no
\* transactions) from any reachable state, and a second reset changes nothing
C18_ResetRestoresInitialAccount ==
    /\ last.op = "reset" =>
          /\ account.cashBalance = Num(InitialCapital)
          /\ account.totalAssets = Num(InitialCapital)
          /\ account.profitLoss = Num(0)
          /\ account.profitLossPercent = Num(0)
          /\ account.positions = << >>
          /\ account.transactions = << >>
    /\ resetAccount(account).cashBalance = Num(InitialCapital)
    /\ resetAccount(account).transactions = << >>
    /\ resetAccount(account).positions = << >>
    /\ resetAccount(resetAccount(account)) = resetAccount(account)

C18_Witness ==
    /\ last.op = "reset"
    /\ last.pre.positions # << >>
    /\ Len(last.pre.transactions) = 2
    /\ last.pre.cashBalance # Num(InitialCapital)
    /\ account = initialState

----------------------------------------------------------------------------
(* The worked scenario: buy 100, buy 50, sell 150 of F001.  Without price   *)
(* ticks the transaction list tells the trades made since the account was  *)
(* last initial.                                                           *)

IsTrade(tx, type, shares) ==
    /\ tx.type = type
    /\ tx.fundCode = TradedCode
    /\ StrictEq(tx.shares, Num(shares))

AfterBuy100 ==
    /\ Len(account.transactions) = 1
    /\ IsTrade(account.transactions[1], "buy", 100)

AfterBuy50 ==
    /\ Len(account.transactions) = 2
    /\ IsTrade(account.transactions[1], "buy", 50)
    /\ IsTrade(account.transactions[2], "buy", 100)

AfterSell150 ==
    /\ Len(account.transactions) = 3
    /\ IsTrade(account.transactions[1], "sell", 150)
    /\ IsTrade(account.transactions[2], "buy", 50)
    /\ IsTrade(account.transactions[3], "buy", 100)
    /\ last.op = "sell"
    /\ last.result.success

\* the position of F001 has these shares, this totalCost and this avgCost
ScenarioPosition(shares, totalCost, avgCost) ==
    /\ FindIndex(account.positions, TradedCode) # 0
    /\ LET p == account.positions[FindIndex(account.positions, TradedCode)]
       IN  /\ StrictEq(p.shares, shares)
           /\ StrictEq(p.totalCost, totalCost)
           /\ StrictEq(p.avgCost, avgCost)

\* the two buys, and the sell as far as both readings of the claim agree
ScenarioUpToTheSell ==
    /\ AfterBuy100 =>
          /\ StrictEq(account.cashBalance, Frac(997544, 10))
          /\ ScenarioPosition(Num(100), Frac(2456, 10), Frac(2456, 1000))
    /\ AfterBuy50 =>
          /\ ScenarioPosition(Num(150), Frac(3684, 10), Frac(2456, 1000))
          /\ SellRejection(account.positions, TradedCode, Num(150)) = ""
    /\ AfterSell150 =>
          /\ last.result.message = MsgFullSell
          /\ FindIndex(account.positions, TradedCode) = 0
          /\ StrictEq(account.cashBalance,
                      Add(last.pre.cashBalance, Frac(3684, 10)))

\* C19, as claimed -- buy(F001, 100) gives cashBalance 99754.4 and the
\* position {100, 245.6, 2.456}; buy(F001, 50) gives {150, 368.4, 2.456};
\* sell(F001, 150) succeeds as a full sell, removes the position, adds 368.4
\* to cashBalance, and cashBalance is 100000 again
C19_ScenarioEndsAt100000 ==
    /\ ScenarioUpToTheSell
    /\ AfterSell150 => StrictEq(account.cashBalance, Num(InitialCapital))

\* 2^-36, the distance from 100000 to the next double below it
UlpBelowCapital == Div(Div(Double(Num(1)), Num(262144)), Num(262144))

\* C19, amended -- as claimed up to the sell and its 368.4; cashBalance then
\* is the double next below 100000, that is 99999.99999999999, since the two
\* buys left 99631.59999999999
C19_ScenarioEndsOneUlpBelow ==
    /\ ScenarioUpToTheSell
    /\ AfterBuy50 =>
          Gt(Frac(996316, 10), account.cashBalance)
    /\ AfterSell150 =>
          /\ Gt(Num(InitialCapital), account.cashBalance)
          /\ StrictEq(Sub(Num(InitialCapital), account.cashBalance),
                      UlpBelowCapital)

C19_Witness ==
    /\ AfterSell150
    /\ last.result.message = MsgFullSell
    /\ account.positions = << >>

\* the panel called a ledger operation and the call failed: the account is
\* as it was (an accepted trade appends a transaction)
PanelCallFailed ==
    /\ last.op \in {"handleBuy", "handleSellConfirm"}
    /\ last.result.kind # "notCalled"
    /\ account = last.pre

\* C20: every ledger operation that fails, a buy with insufficient funds
\* included, hands the trade panel a result object whose success field is
\* false, and the panel changes nothing of its own state after the failure:
\* the typed share count stays in the input, the sell dialog stays open
C20_FailureSignalledByResult ==
    PanelCallFailed =>
        /\ last.result.kind = "object"
        /\ ~last.result.success
        /\ last.op = "handleBuy" => panel.buyShares # << >>
        /\ last.op = "handleSellConfirm" => panel.sellDialogOpen

----------------------------------------------------------------------------
(* Properties of the fund store *)

\* the codes of a list of funds, in order
CodesOf(funds) == [i \in 1..Len(funds) |-> funds[i].code]

CodeSet(funds) == {funds[i].code : i \in 1..Len(funds)}

\* the quote the last call of addCustomFund or updateFundPrice received
LastQuote == getFundQuote(last.response)

\* popularFunds, customFunds and allFunds are what the last call found
CatalogKept ==
    /\ fundStore.popularFunds = last.pre.popularFunds
    /\ fundStore.customFunds = last.pre.customFunds
    /\ fundStore.allFunds = last.pre.allFunds

\* C21: when the list provider fails during loadPopularFunds (no answer, or
\* a status other than ok), the popular set and the merged view after the
\* call are what they were before it
C21_ProviderFailureKeepsPopular ==
    (last.op = "loadPopularFunds" /\ ~last.response.ok) =>
        /\ fundStore.popularFunds = last.pre.popularFunds
        /\ fundStore.allFunds = last.pre.allFunds

\* C22: for a code that both the user-added and the popular set hold, the
\* merged view has exactly one entry, and it is a user-added one
C22_UserEntryOverridesPopular ==
    \A c \in CodeSet(fundStore.customFunds) \cap CodeSet(fundStore.popularFunds) :
        /\ Cardinality({j \in 1..Len(fundStore.allFunds) :
               fundStore.allFunds[j].code = c}) = 1
        /\ \A j \in 1..Len(fundStore.allFunds) :
               fundStore.allFunds[j].code = c =>
                   \E i \in 1..Len(fundStore.customFunds) :
                       fundStore.allFunds[j] = fundStore.customFunds[i]

\* a user-added entry whose name and price differ from those of the popular
\* entry of the same code, after the merged view was recomputed
C22_Witness ==
    /\ last.op = "addCustomFund"
    /\ fundStore.customFunds # last.pre.customFunds
    /\ \E i \in 1..Len(fundStore.customFunds),
          j \in 1..Len(fundStore.popularFunds) :
            /\ fundStore.customFunds[i].code = fundStore.popularFunds[j].code
            /\ fundStore.customFunds[i].name # fundStore.popularFunds[j].name
            /\ fundStore.customFunds[i].price # fundStore.popularFunds[j].price

\* codes without the repetitions of a code already met
RECURSIVE FirstOccurrences(_)
FirstOccurrences(codes) ==
    IF codes = << >> THEN << >>
    ELSE <<Head(codes)>> \o
         FirstOccurrences(SelectSeq(Tail(codes), LAMBDA c : c # Head(codes)))

\* C23: the merged view holds no code twice; its codes are those of the
\* popular set in their order (a code the user-added set holds too keeps
\* its place), then those of the user-added entries that the popular set
\* does not hold, in their order
C23_MergedViewOrder ==
    /\ \A i, j \in 1..Len(fundStore.allFunds) :
           fundStore.allFunds[i].code = fundStore.allFunds[j].code => i = j
    /\ CodesOf(fundStore.allFunds) =
           FirstOccurrences(CodesOf(fundStore.popularFunds)) \o
           FirstOccurrences(
               SelectSeq(CodesOf(fundStore.customFunds),
                         LAMBDA c : c \notin CodeSet(fundStore.popularFunds)))

\* the user-added set holds a code of the popular set, added first, and a
\* code outside of it, and the popular code is not the last of its set
C23_Witness ==
    /\ Len(fundStore.customFunds) = 2
    /\ fundStore.customFunds[1].code = PopularCode
    /\ fundStore.customFunds[2].code = NewCode
    /\ Len(fundStore.popularFunds) > 1
    /\ fundStore.popularFunds[1].code = PopularCode
    /\ Len(fundStore.allFunds) = Len(fundStore.popularFunds) + 1

\* C24: in every state between the steps of the catalog operations, at the
\* start and with calls in flight, allFunds is the merge of popularFunds
\* and customFunds
C24_AllFundsIsTheMerge ==
    fundStore.allFunds = MergedView(fundStore.popularFunds, fundStore.customFunds)

\* loadPopularFunds replaced the popular set while the user-added set was
\* not empty and another call was in flight
C24_Witness ==
    /\ last.op = "loadPopularFunds"
    /\ fundStore.popularFunds # last.pre.popularFunds
    /\ fundStore.popularFunds # << >>
    /\ fundStore.customFunds # << >>
    /\ pending # << >>

\* C25: addCustomFund(code) whose lookup failed or returned nothing returns
\* null and leaves popularFunds, customFunds and allFunds as they were
C25_FailedAddChangesNothing ==
    (last.op = "addCustomFund" /\ LastQuote.isNull) =>
        /\ last.result = << >>
        /\ CatalogKept

\* an add that failed on a store unlike the initial one
C25_Witness ==
    /\ last.op = "addCustomFund"
    /\ LastQuote.isNull
    /\ ~last.response.ok
    /\ fundStore.customFunds # << >>

\* C26: a successful addCustomFund(code) of a code the user-added set holds
\* changes neither that set nor the merged view; of a code it does not
\* hold, it appends exactly one entry, the quoted fund, at the end of the set
C26_AddIsIdempotent ==
    (last.op = "addCustomFund" /\ ~LastQuote.isNull) =>
        IF last.fundCode \in CodeSet(last.pre.customFunds)
        THEN /\ fundStore.customFunds = last.pre.customFunds
             /\ fundStore.allFunds = last.pre.allFunds
        ELSE /\ Len(fundStore.customFunds) = Len(last.pre.customFunds) + 1
             /\ SubSeq(fundStore.customFunds, 1, Len(last.pre.customFunds))
                    = last.pre.customFunds
             /\ fundStore.customFunds[Len(fundStore.customFunds)] =
                    Fund(LastQuote.code, LastQuote.name, "mix", "",
                         LastQuote.value, LastQuote.day_growth)

\* a second successful add of a code, with a quote other than the stored one
C26_Witness ==
    /\ last.op = "addCustomFund"
    /\ ~LastQuote.isNull
    /\ \E i \in 1..Len(last.pre.customFunds) :
           /\ last.pre.customFunds[i].code = last.fundCode
           /\ last.pre.customFunds[i].price # LastQuote.value

\* funds is before with the quote q applied to the entries of code
RequotedFrom(funds, before, code, q) ==
    /\ Len(funds) = Len(before)
    /\ \A i \in 1..Len(before) :
           IF before[i].code = code
           THEN /\ funds[i].price = q.value
                /\ funds[i].dayGrowth = q.day_growth
                /\ [funds[i] EXCEPT !.price = NaN, !.dayGrowth = NaN]
                     = [before[i] EXCEPT !.price = NaN, !.dayGrowth = NaN]
           ELSE funds[i] = before[i]

\* C27: updateFundPrice(code) with a quote sets price and dayGrowth of every
\* entry of that code, in popularFunds and in customFunds, to the quoted
\* values and changes nothing else of the two sets; without a quote it
\* leaves both sets and the merged view as they were
C27_RefreshPriceFrame ==
    last.op = "updateFundPrice" =>
        IF LastQuote.isNull THEN CatalogKept
        ELSE /\ RequotedFrom(fundStore.popularFunds, last.pre.popularFunds,
                             last.fundCode, LastQuote)
             /\ RequotedFrom(fundStore.customFunds, last.pre.customFunds,
                             last.fundCode, LastQuote)

\* a refresh of a code both sets hold, which changed the price in both
C27_Witness ==
    /\ last.op = "updateFundPrice"
    /\ ~LastQuote.isNull
    /\ \E i \in 1..Len(last.pre.popularFunds) :
           /\ last.pre.popularFunds[i].code = last.fundCode
           /\ last.pre.popularFunds[i].price # LastQuote.value
    /\ \E i \in 1..Len(last.pre.customFunds) :
           /\ last.pre.customFunds[i].code = last.fundCode
           /\ last.pre.customFunds[i].price # LastQuote.value
    /\ Len(fundStore.customFunds) = 2

\* C28: a code the merged view held before a completed loadPopularFunds,
\* addCustomFund or updateFundPrice is in the merged view after it
C28_CatalogOnlyGrows ==
    last.op \in {"loadPopularFunds", "addCustomFund", "updateFundPrice"} =>
        CodeSet(last.pre.allFunds) \subseteq CodeSet(fundStore.allFunds)

----------------------------------------------------------------------------
(* Properties of the callers of the ledger *)

\* C29: whenever handleBuy or handleTrade has called buyFund, the share
\* count it passed is a number greater than 0; an empty, non-numeric, zero
\* or negative input ends the handler before the call
C29_PanelBuysArePositive ==
    /\ (last.op \in {"handleBuy", "handleTrade"} /\ last.result.kind # "notCalled")
           => (~IsNaN(last.shares) /\ Gt(last.shares, Num(0)))
    /\ (last.op \in {"handleBuy", "handleTrade"}
        /\ (IsNaN(last.shares) \/ Le(last.shares, Num(0))))
           => (last.result.kind = "notCalled" /\ account = last.pre)

\* handleTrade has bought the two shares it read from its input
C29_Witness ==
    /\ last.op = "handleTrade"
    /\ last.result.kind # "notCalled"
    /\ last.shares = Num(2)
    /\ Len(account.transactions) = Len(last.pre.transactions) + 1

\* C30: cashBalance is a number and at least 0 in every reachable state,
\* whatever share counts buyFund and sellFund are called with
C30_CashNeverNegative ==
    Le(Num(0), account.cashBalance)

----------------------------------------------------------------------------
(* Trading alone *)

Near(a, b) ==
    /\ Le(Sub(a, b), Frac(1, 1000000000))
    /\ Le(Sub(b, a), Frac(1, 1000000000))

C32_ProceedsAtCurrentPrice ==
    SellAccepted =>
        StrictEq(account.cashBalance,
                 Add(last.pre.cashBalance,
                     Mul(last.shares, PrePosition.currentPrice)))

\* C33: confirming the sell dialog with the share count of its 100% button,
\* which is also the maximum of its slider, sells the whole position: the
\* position is removed and the transaction has sellType full, also for a
\* position with a fraction of a share
C33_QuickSelectAllSellsAll ==
    (/\ last.op = "handleSellConfirm"
     /\ last.result.success
     /\ last.shares = Floor(PrePosition.shares)) =>
        /\ ~HeldAfter
        /\ account.transactions[1].sellType = "full"

----------------------------------------------------------------------------
(* Overlapping calls of the fund store *)

\* C34: customFunds never holds two entries of the same code, also when two
\* addCustomFund calls of one code are in flight together and when a quote
\* carries another code than the requested one
C34_CustomCodesUnique ==
    \A i, j \in 1..Len(fundStore.customFunds) :
        fundStore.customFunds[i].code = fundStore.customFunds[j].code => i = j

\* C35: isLoading is true exactly while some loadPopularFunds call waits for
\* the list provider: true while at least one of several overlapping calls
\* waits, false once all have ended
C35_LoadingWhileAnyLoadPending ==
    fundStore.isLoading <=>
        \E i \in 1..Len(pending) : pending[i].op = "loadPopularFunds"

(* The search box *)

\* every search sent has been answered and no timer is set
SearchIdle == search.inFlight = << >> /\ ~search.timer

\* C36: once every search in flight has returned, the results of the
\* FundSearch box are those of the most recently issued query: an answer to
\* an older query that arrives late never replaces them
C36_LatestQueryShown ==
    SearchIdle => search.results = search.latest

============================================================================
